---- MODULE Spec2Model ----
(***************************************************************************)
(* State machine of the grid editor's store (src/src/state/gridStore.ts)   *)
(* and of the pointer handlers of its canvas component (GridCanvas).       *)
(*                                                                         *)
(* Representation.                                                         *)
(*  - A JavaScript number that may be fractional (zoom, pan, stroke width, *)
(*    stroke points, the size arguments of setGridSize and every number of *)
(*    a JSON document) is the integer 2*x: the model counts in halves, so  *)
(*    0.5 is 1 and 4 is 8.  rows, cols, row and col arguments and array    *)
(*    indices are whole integers.  Infinity and NaN are two integers       *)
(*    outside the range of the finite numbers.                             *)
(*  - The cell value null is the string Null.  A grid is a sequence of     *)
(*    rows, each a sequence of cells; the source's grid[r][c] (0-based) is *)
(*    grid[r + 1][c + 1].                                                  *)
(*  - activeStrokeIndex is 1-based; 0 stands for the source's null.        *)
(*  - A JSON value is a record [t, v]: t is "num", "str", "null", "arr",   *)
(*    "obj" or "undef" (a missing field).                                  *)
(***************************************************************************)
EXTENDS Integers, Sequences, FiniteSets, TLC

(* ------------------------------------------------------------------ *)
(* Program constants.  The grid-size limits, the default size and the  *)
(* history depth are scaled down so that the reachable states can be  *)
(* enumerated: the source has MIN_GRID_SIZE = 8, MAX_GRID_SIZE = 128,  *)
(* DEFAULT_ROWS = DEFAULT_COLS = 32 and MAX_HISTORY = 100.             *)
(* ------------------------------------------------------------------ *)
MIN_GRID_SIZE == 2

MAX_GRID_SIZE == 3

DEFAULT_ROWS == 2

DEFAULT_COLS == 2

MAX_HISTORY == 2

\* 0.5, in halves
MIN_ZOOM == 1

\* 4, in halves
MAX_ZOOM == 8

\* 2, in halves
DEFAULT_STROKE_WIDTH == 4

DEFAULT_COLOR == "#0ea5e9"

\* a second color, as picked from the palette or carried by a payload
OTHER_COLOR == "#111111"

Null == "null"

Undefined == "undefined"

Colors == {DEFAULT_COLOR, OTHER_COLOR}

GridMode == {"draw", "erase", "fill", "fillForward", "paint", "pan"}

(* ------------------------------------------------------------------ *)
(* Bounds of the exploration.                                          *)
(* ------------------------------------------------------------------ *)
\* operations per run of the full store machine
MaxSteps == 4

\* operations per run of the history machine
MaxHistorySteps == 6

\* events per run of the canvas machine
MaxCanvasSteps == 6

\* the longest run of the codec machine
MaxCodecSteps == 3

\* the longest run of the clamp machine
MaxClampSteps == 2

\* the longest run of the storage machine
MaxQuotaSteps == 5

\* events per run of the gesture machine
MaxGestureSteps == 5

\* operations per run of the argument machine
MaxArgumentSteps == 3

\* events per run of the resize machine
MaxResizeSteps == 5

\* The side of a cell at zoom 1, in pixels.  It is scaled with the grid-size limits so
\* that the smallest content, MIN_GRID_SIZE cells at MIN_ZOOM, is 96 pixels wide as in
\* the source, where BASE_CELL_SIZE = 24 and MIN_GRID_SIZE = 8.
BASE_CELL_SIZE == 96

VARIABLES rows, cols, grid, zoom, selectedColor, panX, panY, mode,
          paintStrokes, history, future, activeStrokeIndex,
          storage, op, run, chain, track, probe, steps,
          isDrawing, isPanning, isPainting, viewportSize, panOrigin, handler

storeVars == <<rows, cols, grid, zoom, selectedColor, panX, panY, mode,
               paintStrokes, history, future, activeStrokeIndex>>

vars == <<rows, cols, grid, zoom, selectedColor, panX, panY, mode,
          paintStrokes, history, future, activeStrokeIndex, storage, op, run, chain, track, probe,
          steps, isDrawing, isPanning, isPainting, viewportSize, panOrigin, handler>>

\* the state of the canvas component (GridCanvas): its three gesture flags, the measured
\* size of its wrapper (in halves) and the origin of the pan drag
componentVars == <<isDrawing, isPanning, isPainting, viewportSize, panOrigin>>

(* ------------------------------------------------------------------ *)
(* Helpers                                                             *)
(* ------------------------------------------------------------------ *)
Min2(a, b) == IF a < b THEN a ELSE b

Max2(a, b) == IF a > b THEN a ELSE b

\* Math.round on a number given in halves: rounds half up, to a whole integer
MathRound(h) == (h + 1) \div 2

\* a whole integer as a number (in halves)
ToNum(n) == 2 * n

createEmptyGrid(r, c) == [i \in 1..r |-> [j \in 1..c |-> Null]]

cloneGrid(g) == [i \in 1..Len(g) |-> [j \in 1..Len(g[i]) |-> g[i][j]]]

clonePaintStrokes(strokes) ==
    [i \in 1..Len(strokes) |->
        [color |-> strokes[i].color,
         width |-> strokes[i].width,
         points |-> [k \in 1..Len(strokes[i].points) |->
                        [x |-> strokes[i].points[k].x, y |-> strokes[i].points[k].y]]]]

\* the number NaN; it lies outside the finite numbers of the model, and the operators that
\* receive it treat it as the source does (every comparison with it is false, Math.max
\* and Math.min return it)
NaN == 0 - 2000000

\* a clamp that forgets the upper limit
clampNoUpperLimit(value, min, max) == Max2(value, min)

clamp(value, min, max) == IF value = NaN THEN NaN ELSE Min2(Max2(value, min), max)

clampGridSize(value) == clamp(MathRound(value), MIN_GRID_SIZE, MAX_GRID_SIZE)

\* grid[row]?.[col] with 0-based row, col: Undefined outside the arrays
CellAt(g, row, col) ==
    IF row >= 0 /\ row < Len(g)
    THEN IF col >= 0 /\ col < Len(g[row + 1]) THEN g[row + 1][col + 1] ELSE Undefined
    ELSE Undefined

SetCell(g, row, col, value) == [g EXCEPT ![row + 1][col + 1] = value]

(* ------------------------------------------------------------------ *)
(* JSON values (what JSON.stringify writes and JSON.parse returns)     *)
(* ------------------------------------------------------------------ *)
\* the number Infinity, which JSON.parse returns for a literal such as 1e999; every
\* finite number of the model lies strictly between -Infinity and Infinity
Infinity == 1000000

\* Number.isFinite(value) of a number
IsFinite(value) == value < Infinity /\ value > 0 - Infinity

JNum(n) == [t |-> "num", v |-> n]

JStr(str) == [t |-> "str", v |-> str]

JNull == [t |-> "null", v |-> 0]

JUndef == [t |-> "undef", v |-> 0]

\* a number as JSON.stringify writes it and JSON.parse reads it back: a number that is
\* not finite is written as null
JNumber(n) == IF IsFinite(n) THEN JNum(n) ELSE JNull

JTrue == [t |-> "bool", v |-> 1]

JArr(seq) == [t |-> "arr", v |-> seq]

JObj(rec) == [t |-> "obj", v |-> rec]

\* array[i] with a 0-based index: undefined beyond the end
JAt(arr, i) == IF i >= 0 /\ i < Len(arr.v) THEN arr.v[i + 1] ELSE JUndef

\* a cell of the store as the runtime value JSON.stringify sees
JCell(cell) == IF cell = Null THEN JNull ELSE JStr(cell)

JGrid(g) == JArr([i \in 1..Len(g) |-> JArr([j \in 1..Len(g[i]) |-> JCell(g[i][j])])])

JPoint(p) == JObj([x |-> JNumber(p.x), y |-> JNumber(p.y)])

JStroke(s) ==
    JObj([color |-> JStr(s.color),
          width |-> JNumber(s.width),
          points |-> JArr([k \in 1..Len(s.points) |-> JPoint(s.points[k])])])

JStrokes(strokes) == JArr([i \in 1..Len(strokes) |-> JStroke(strokes[i])])

\* JSON.stringify of a PersistedGridState followed by JSON.parse of the text
JPersisted(p) ==
    JObj([rows |-> JNum(ToNum(p.rows)),
          cols |-> JNum(ToNum(p.cols)),
          grid |-> JGrid(p.grid),
          zoom |-> JNumber(p.zoom),
          selectedColor |-> JStr(p.selectedColor),
          panX |-> JNumber(p.panX),
          panY |-> JNumber(p.panY),
          paintStrokes |-> JStrokes(p.paintStrokes)])

(* ------------------------------------------------------------------ *)
(* Tolerant decoding                                                   *)
(* ------------------------------------------------------------------ *)
\* the legacy reading of a cell: whatever is truthy is filled
normalizeCellValueTruthy(value) ==
    IF value.t = "str" THEN value.v
    ELSE IF value.t = "null" \/ value.t = "undef" THEN Null
    ELSE IF value.t = "num" THEN (IF value.v # 0 THEN DEFAULT_COLOR ELSE Null)
    ELSE DEFAULT_COLOR

normalizeCellValue(value) ==
    IF value.t = "str" THEN value.v
    ELSE IF value.t = "null" \/ value.t = "undef" THEN Null
    ELSE IF value.t = "num" THEN (IF value.v > 0 THEN DEFAULT_COLOR ELSE Null)
    ELSE Null

normalizeGrid(rawGrid, r, c) ==
    IF rawGrid.t # "arr" THEN createEmptyGrid(r, c)
    ELSE [i \in 1..r |->
            LET sourceRow == IF JAt(rawGrid, i - 1).t = "arr"
                             THEN JAt(rawGrid, i - 1) ELSE JArr(<<>>)
            IN [j \in 1..c |-> normalizeCellValue(JAt(sourceRow, j - 1))]]

\* the point check without Number.isFinite
normalizePaintPointAnyNumber(point) ==
    IF point.t # "obj" THEN <<>>
    ELSE IF point.v.x.t # "num" \/ point.v.y.t # "num" THEN <<>>
    ELSE <<[x |-> point.v.x.v, y |-> point.v.y.v]>>

\* <<the point>>, or <<>> for the source's null
normalizePaintPoint(point) ==
    IF point.t # "obj" THEN <<>>
    ELSE IF point.v.x.t # "num" \/ point.v.y.t # "num" THEN <<>>
    ELSE IF ~IsFinite(point.v.x.v) \/ ~IsFinite(point.v.y.v) THEN <<>>
    ELSE <<[x |-> point.v.x.v, y |-> point.v.y.v]>>

RECURSIVE NormalizePoints(_, _)
\* the loop of lines 132-137 from index k on
NormalizePoints(pointsRaw, k) ==
    IF k > Len(pointsRaw.v) THEN <<>>
    ELSE normalizePaintPoint(pointsRaw.v[k]) \o NormalizePoints(pointsRaw, k + 1)

RECURSIVE NormalizeEntries(_, _)
\* the loop of lines 126-146 from index k on
NormalizeEntries(raw, k) ==
    IF k > Len(raw.v) THEN <<>>
    ELSE LET entry == raw.v[k]
             rest == NormalizeEntries(raw, k + 1)
         IN IF entry.t # "obj" THEN rest
            ELSE IF entry.v.points.t # "arr" THEN rest
            ELSE LET points == NormalizePoints(entry.v.points, 1)
                     width == entry.v.width
                     color == entry.v.color
                 IN IF Len(points) = 0 THEN rest
                    ELSE <<[color |-> IF color.t = "str" THEN color.v ELSE DEFAULT_COLOR,
                            width |-> IF width.t = "num" /\ IsFinite(width.v) /\ width.v > 0
                                      THEN width.v ELSE DEFAULT_STROKE_WIDTH,
                            points |-> points]>> \o rest

normalizePaintStrokes(raw) == IF raw.t # "arr" THEN <<>> ELSE NormalizeEntries(raw, 1)

(* ------------------------------------------------------------------ *)
(* History and flood fill                                              *)
(* ------------------------------------------------------------------ *)
\* a snapshot of the grid alone, as the history held before paint strokes existed
SnapshotGridOnly(g, strokes) == [grid |-> cloneGrid(g), paintStrokes |-> <<>>]

Snapshot(g, strokes) == [grid |-> cloneGrid(g), paintStrokes |-> clonePaintStrokes(strokes)]

\* history.shift(): drops the oldest entry
Shift(seq) == SubSeq(seq, 2, Len(seq))

\* a push that never discards the oldest entry
pushHistoryUnbounded(hist, g, strokes) == Append(hist, Snapshot(g, strokes))

\* a push that discards the new entry, not the oldest, when the stack is full
pushHistoryDropsNewest(hist, g, strokes) ==
    LET appended == Append(hist, Snapshot(g, strokes))
    IN IF Len(appended) > MAX_HISTORY THEN hist ELSE appended

pushHistory(hist, g, strokes) ==
    LET appended == Append(hist, Snapshot(g, strokes))
    IN IF Len(appended) > MAX_HISTORY THEN Shift(appended) ELSE appended

\* the in-bounds neighbours of (r, c) that still hold targetValue, in the order of directions
RECURSIVE PushNeighbours(_, _, _, _, _, _)
PushNeighbours(filled, r, c, targetValue, directions, k) ==
    IF k > Len(directions) THEN <<>>
    ELSE LET nextRow == r + directions[k][1]
             nextCol == c + directions[k][2]
             nRows == Len(filled)
             nCols == IF Len(filled) > 0 THEN Len(filled[1]) ELSE 0
             rest == PushNeighbours(filled, r, c, targetValue, directions, k + 1)
         IN IF nextRow < 0 \/ nextCol < 0 \/ nextRow >= nRows \/ nextCol >= nCols THEN rest
            ELSE IF CellAt(filled, nextRow, nextCol) # targetValue THEN rest
            ELSE <<(<<nextRow, nextCol>>)>> \o rest

\* the while loop of floodFillWithDirections: the stack's top is its last element
RECURSIVE FillLoop(_, _, _, _, _)
FillLoop(filled, stack, targetValue, newValue, directions) ==
    IF Len(stack) = 0 THEN filled
    ELSE LET top == stack[Len(stack)]
             popped == SubSeq(stack, 1, Len(stack) - 1)
             r == top[1]
             c == top[2]
         IN IF CellAt(filled, r, c) # targetValue
            THEN FillLoop(filled, popped, targetValue, newValue, directions)
            ELSE LET painted == SetCell(filled, r, c, newValue)
                 IN FillLoop(painted,
                             popped \o PushNeighbours(painted, r, c, targetValue, directions, 1),
                             targetValue, newValue, directions)

floodFillWithDirections(g, row, col, newValue, directions) ==
    LET targetValue == CellAt(g, row, col)
    IN IF targetValue = Undefined \/ targetValue = newValue THEN g
       ELSE FillLoop(cloneGrid(g), <<(<<row, col>>)>>, targetValue, newValue, directions)

\* a fill that does not spread upward
floodFillNoUp(g, row, col, newValue) ==
    floodFillWithDirections(g, row, col, newValue, <<(<<1, 0>>), <<0, 0 - 1>>, <<0, 1>> >>)

floodFill(g, row, col, newValue) ==
    floodFillWithDirections(g, row, col, newValue,
                            <<(<<0 - 1, 0>>), <<1, 0>>, <<0, 0 - 1>>, <<0, 1>> >>)

\* a forward fill that spreads in all four directions
forwardFillAllWays(g, row, col, newValue) ==
    floodFillWithDirections(g, row, col, newValue,
                            <<(<<0 - 1, 0>>), <<1, 0>>, <<0, 0 - 1>>, <<0, 1>> >>)

forwardFill(g, row, col, newValue) ==
    floodFillWithDirections(g, row, col, newValue, <<(<<1, 0>>), <<0, 1>> >>)

(* ------------------------------------------------------------------ *)
(* Persistence                                                         *)
(* ------------------------------------------------------------------ *)
\* the current persisted projection of the store, as buildPersistedState(state) with no overrides
Persisted ==
    [rows |-> rows, cols |-> cols, grid |-> grid, zoom |-> zoom,
     selectedColor |-> selectedColor, panX |-> panX, panY |-> panY,
     paintStrokes |-> paintStrokes]

\* buildPersistedState(state, overrides): overrides is a record holding some of the fields
buildPersistedState(state, overrides) ==
    [k \in DOMAIN state |-> IF k \in DOMAIN overrides THEN overrides[k] ELSE state[k]]

\* localStorage holds no value under STORAGE_KEY
NoItem == [t |-> "none", v |-> 0]

\* localStorage holds no value and has no room left: every setItem throws
FullStore == [t |-> "full", v |-> 0]

\* localStorage after persistSnapshot(state): the document, unless setItem throws; the
\* error is caught and logged, and the content stays
persistSnapshot(state) == IF storage.t = "full" THEN storage ELSE JPersisted(state)

\* a text that JSON.parse rejects
BadText == [t |-> "bad", v |-> 0]

\* readSnapshot(): <<the PersistedGridState>>, or <<>> for the source's null.
\* rows and cols of the result are the parsed numbers (in halves), not yet clamped.
\* normalizeGrid is called here with the unclamped numbers: Array.from truncates a
\* fractional length, the loops run while r < rows and c < cols, so a fractional
\* rows indexes a row that does not exist (a TypeError, caught at line 183) and a
\* fractional cols writes one cell past the truncated length. Array.from of a length
\* that is not finite throws a RangeError, caught at the same place.
readSnapshot(raw) ==
    IF raw.t = "none" \/ raw.t = "bad" \/ raw.t # "obj" THEN <<>>
    ELSE LET parsed == raw.v
         IN IF ~(parsed.rows.t = "num" /\ parsed.cols.t = "num" /\ parsed.grid.t = "arr")
            THEN <<>>
            ELSE LET r == parsed.rows.v
                     c == parsed.cols.v
                     typeError == r > 0 /\ r % 2 = 1 /\ c > 0
                     rangeError == r >= Infinity \/ (r >= 2 /\ c >= Infinity)
                 IN IF typeError \/ rangeError THEN <<>>
                    ELSE <<[rows |-> r,
                            cols |-> c,
                            grid |-> normalizeGrid(parsed.grid, Max2(r \div 2, 0),
                                                   Max2((c + 1) \div 2, 0)),
                            zoom |-> IF parsed.zoom.t = "num" THEN parsed.zoom.v ELSE 2,
                            selectedColor |-> IF parsed.selectedColor.t = "str"
                                              THEN parsed.selectedColor.v ELSE DEFAULT_COLOR,
                            panX |-> IF parsed.panX.t = "num" THEN parsed.panX.v ELSE 0,
                            panY |-> IF parsed.panY.t = "num" THEN parsed.panY.v ELSE 0,
                            paintStrokes |-> normalizePaintStrokes(parsed.paintStrokes)]>>

(* ------------------------------------------------------------------ *)
(* Observers of a run: the last operation, and the marks that the      *)
(* undo/redo round trips are measured against.                         *)
(* ------------------------------------------------------------------ *)
\* name: the operation; case: "noop" (an early return), "done" otherwise;
\* wrote: the operation called persistSnapshot; hadFuture: the redo stack was not
\* empty when the operation was called; hadStroke: a stroke was active then
Op(name, case, wrote) ==
    [name |-> name, case |-> case, wrote |-> wrote, hadFuture |-> Len(future) > 0,
     hadStroke |-> activeStrokeIndex # 0]

Snap(g, strokes) == [grid |-> g, paintStrokes |-> strokes]

\* trail: grid and paintStrokes before the first edit of a run of consecutive edits that
\* go through history, then after each of them; undone: the undos that directly follow
NoRun == [trail |-> <<>>, undone |-> 0]

\* after an edit that leaves g2 and strokes2
RunAfterEdit(g2, strokes2) ==
    IF Len(run.trail) > 0 /\ run.undone = 0
    THEN [run EXCEPT !.trail = Append(@, Snap(g2, strokes2))]
    ELSE [trail |-> <<Snap(grid, paintStrokes), Snap(g2, strokes2)>>, undone |-> 0]

RunAfterUndo == IF Len(run.trail) > 0 THEN [run EXCEPT !.undone = @ + 1] ELSE NoRun

NoChain == [undos |-> 0, redos |-> 0, grid |-> <<>>, paintStrokes |-> <<>>,
            history |-> <<>>, future |-> <<>>]

\* after a successful undo: a run of consecutive undos, begun in the recorded state
ChainAfterUndo ==
    IF chain.undos > 0 /\ chain.redos = 0
    THEN [chain EXCEPT !.undos = @ + 1]
    ELSE [undos |-> 1, redos |-> 0, grid |-> grid, paintStrokes |-> paintStrokes,
          history |-> history, future |-> future]

\* after a successful redo: the redos that directly follow that run of undos
ChainAfterRedo ==
    IF chain.undos > 0 /\ chain.redos < chain.undos
    THEN [chain EXCEPT !.redos = @ + 1]
    ELSE NoChain

\* The course of a paint gesture and of what follows a clear or a resize.
\* phase: "drawing" after a startPaintStroke and the updates that follow it, "ended" after
\* the endPaintStroke that follows those, "undone" after an undo right after that,
\* "redone" after a redo right after that; "cleared" ("resized") after a clear (an
\* effective setGridSize), "clearedUndone" ("resizedUndone") after the undos and redos
\* that directly follow it.  grid, paintStrokes, history: as they were before the
\* gesture, the clear or the resize; drawn: paintStrokes as the gesture has left them.
NoTrack == [phase |-> "none", grid |-> <<>>, paintStrokes |-> <<>>, history |-> <<>>,
            drawn |-> <<>>]

\* the course after the step that has just set op', read at the end of the step
TrackNext ==
    IF op'.name = "startPaintStroke" /\ op'.case = "done"
    THEN [phase |-> "drawing", grid |-> grid, paintStrokes |-> paintStrokes,
          history |-> history, drawn |-> paintStrokes']
    ELSE IF op'.name = "updatePaintStroke" /\ op'.case \in {"done", "noop"}
            /\ track.phase = "drawing"
    THEN [track EXCEPT !.drawn = paintStrokes']
    ELSE IF op'.name = "endPaintStroke" /\ track.phase = "drawing"
    THEN [track EXCEPT !.phase = "ended"]
    ELSE IF op'.name = "undo" /\ track.phase = "ended"
    THEN [track EXCEPT !.phase = "undone"]
    ELSE IF op'.name = "redo" /\ track.phase = "undone"
    THEN [track EXCEPT !.phase = "redone"]
    ELSE IF op'.name = "clear"
    THEN [phase |-> "cleared", grid |-> grid, paintStrokes |-> paintStrokes,
          history |-> history, drawn |-> <<>>]
    ELSE IF op'.name \in {"undo", "redo"} /\ track.phase \in {"cleared", "clearedUndone"}
    THEN [track EXCEPT !.phase = "clearedUndone"]
    ELSE IF op'.name = "setGridSize" /\ op'.case = "done"
    THEN [phase |-> "resized", grid |-> grid, paintStrokes |-> paintStrokes,
          history |-> history, drawn |-> <<>>]
    ELSE IF op'.name \in {"undo", "redo"} /\ track.phase \in {"resized", "resizedUndone"}
    THEN [track EXCEPT !.phase = "resizedUndone"]
    ELSE NoTrack

\* panOriginRef.current = null
NoOrigin == [set |-> FALSE, x |-> 0, y |-> 0, panX |-> 0, panY |-> 0]

\* the handler of the canvas that ran last and the number of its calls of persistSnapshot;
\* "none" when the store was called directly
NoHandler == [name |-> "none", writes |-> 0]

(* ------------------------------------------------------------------ *)
(* Initial state: the store as constructed (lines 264-275)             *)
(* ------------------------------------------------------------------ *)
InitStore ==
    /\ rows = DEFAULT_ROWS
    /\ cols = DEFAULT_COLS
    /\ grid = createEmptyGrid(DEFAULT_ROWS, DEFAULT_COLS)
    /\ zoom = 2
    /\ selectedColor = DEFAULT_COLOR
    /\ panX = 0
    /\ panY = 0
    /\ mode = "draw"
    /\ paintStrokes = <<>>
    /\ history = <<>>
    /\ future = <<>>
    /\ activeStrokeIndex = 0

\* no call is being compared
NoProbe == [phase |-> "none", call |-> 0, before |-> <<>>, after |-> <<>>]

InitObservers ==
    /\ op = Op("init", "done", FALSE)
    /\ run = NoRun
    /\ chain = NoChain
    /\ track = NoTrack
    /\ probe = NoProbe
    /\ steps = 0

\* the component before its wrapper is measured (lines 23-29 of GridCanvas)
InitComponent ==
    /\ isDrawing = FALSE
    /\ isPanning = FALSE
    /\ isPainting = FALSE
    /\ viewportSize = [width |-> 0, height |-> 0]
    /\ panOrigin = NoOrigin
    /\ handler = NoHandler

(* ------------------------------------------------------------------ *)
(* Operations of the store                                             *)
(* ------------------------------------------------------------------ *)
\* an early return of a set() callback: the store and the storage stay as they are
NoOp(name) ==
    /\ UNCHANGED <<storeVars, storage>>
    /\ op' = Op(name, "noop", FALSE)
    /\ run' = NoRun
    /\ chain' = NoChain

\* a set() callback that throws: the exception leaves through the call of the operation
\* and set() assigns nothing
Throws(name) ==
    /\ UNCHANGED <<storeVars, storage>>
    /\ op' = Op(name, "threw", FALSE)
    /\ run' = NoRun
    /\ chain' = NoChain

SetMode(m) ==
    /\ mode' = m
    /\ UNCHANGED <<rows, cols, grid, zoom, selectedColor, panX, panY, paintStrokes,
                   history, future, activeStrokeIndex, storage>>
    /\ op' = Op("setMode", "done", FALSE)
    /\ run' = NoRun
    /\ chain' = NoChain

\* a zoom change that is not written to storage
ZoomToNotPersisted(name, z) ==
    LET clamped == clamp(z, MIN_ZOOM, MAX_ZOOM)
    IN /\ zoom' = clamped
       /\ UNCHANGED <<rows, cols, grid, selectedColor, panX, panY, mode, paintStrokes,
                      history, future, activeStrokeIndex, storage>>
       /\ op' = Op(name, "done", FALSE)
       /\ run' = NoRun
       /\ chain' = NoChain

\* setZoom(z), also reached from bumpZoom under the name of that operation
ZoomTo(name, z) ==
    LET clamped == clamp(z, MIN_ZOOM, MAX_ZOOM)
    IN /\ storage' = persistSnapshot(buildPersistedState(Persisted, [zoom |-> clamped]))
       /\ zoom' = clamped
       /\ UNCHANGED <<rows, cols, grid, selectedColor, panX, panY, mode, paintStrokes,
                      history, future, activeStrokeIndex>>
       /\ op' = Op(name, "done", TRUE)
       /\ run' = NoRun
       /\ chain' = NoChain

SetZoom(z) == ZoomTo("setZoom", z)

BumpZoom(delta) == ZoomTo("bumpZoom", zoom + delta)

\* the switch without the guards of the two fill modes: the fill returns the grid itself
\* when the clicked cell already holds selectedColor
NextGridUnguardedFill(row, col) ==
    IF mode = "draw"
    THEN IF CellAt(grid, row, col) # selectedColor
         THEN <<SetCell(cloneGrid(grid), row, col, selectedColor)>> ELSE <<>>
    ELSE IF mode = "erase"
    THEN IF CellAt(grid, row, col) # Null
         THEN <<SetCell(cloneGrid(grid), row, col, Null)>> ELSE <<>>
    ELSE IF mode = "fill" THEN <<floodFill(grid, row, col, selectedColor)>>
    ELSE IF mode = "fillForward" THEN <<forwardFill(grid, row, col, selectedColor)>>
    ELSE <<>>

\* the switch with draw painting the whole row of the clicked cell
NextGridDrawRow(row, col) ==
    IF mode = "draw"
    THEN IF CellAt(grid, row, col) # selectedColor
         THEN <<[cloneGrid(grid) EXCEPT ![row + 1] = [j \in 1..Len(@) |-> selectedColor]]>>
         ELSE <<>>
    ELSE IF mode = "erase"
    THEN IF CellAt(grid, row, col) # Null
         THEN <<SetCell(cloneGrid(grid), row, col, Null)>> ELSE <<>>
    ELSE IF mode = "fill"
    THEN IF CellAt(grid, row, col) # selectedColor
         THEN <<floodFill(grid, row, col, selectedColor)>> ELSE <<>>
    ELSE IF mode = "fillForward"
    THEN IF CellAt(grid, row, col) # selectedColor
         THEN <<forwardFill(grid, row, col, selectedColor)>> ELSE <<>>
    ELSE <<>>

\* the switch of applyCellAction: <<nextGrid>>, or <<>> while nextGrid is null
NextGrid(row, col) ==
    IF mode = "draw"
    THEN IF CellAt(grid, row, col) # selectedColor
         THEN <<SetCell(cloneGrid(grid), row, col, selectedColor)>> ELSE <<>>
    ELSE IF mode = "erase"
    THEN IF CellAt(grid, row, col) # Null
         THEN <<SetCell(cloneGrid(grid), row, col, Null)>> ELSE <<>>
    ELSE IF mode = "fill"
    THEN IF CellAt(grid, row, col) # selectedColor
         THEN <<floodFill(grid, row, col, selectedColor)>> ELSE <<>>
    ELSE IF mode = "fillForward"
    THEN IF CellAt(grid, row, col) # selectedColor
         THEN <<forwardFill(grid, row, col, selectedColor)>> ELSE <<>>
    ELSE <<>>

\* a cell action whose storage error is not caught: the update is lost with it
ApplyCellActionUncaught(row, col) ==
    IF row < 0 \/ col < 0 \/ row >= rows \/ col >= cols
    THEN NoOp("applyCellAction")
    ELSE LET next == NextGrid(row, col)
         IN IF next = <<>> \/ storage.t = "full"
            THEN NoOp("applyCellAction")
            ELSE /\ grid' = next[1]
                 /\ history' = pushHistory(history, grid, paintStrokes)
                 /\ future' = <<>>
                 /\ activeStrokeIndex' = 0
                 /\ storage' = persistSnapshot(buildPersistedState(Persisted,
                                                                   [grid |-> next[1]]))
                 /\ UNCHANGED <<rows, cols, zoom, selectedColor, panX, panY, mode,
                                paintStrokes>>
                 /\ op' = Op("applyCellAction", "done", TRUE)
                 /\ run' = RunAfterEdit(next[1], paintStrokes)
                 /\ chain' = NoChain

\* row is a whole number or NaN, col a whole number.  No comparison of the guard holds
\* for NaN, and state.grid[NaN] is undefined: the four modes that read state.grid[row][col]
\* throw a TypeError
ApplyCellAction(row, col) ==
    IF (row # NaN /\ row < 0) \/ col < 0 \/ (row # NaN /\ row >= rows) \/ col >= cols
    THEN NoOp("applyCellAction")
    ELSE IF row = NaN
    THEN IF mode \in {"draw", "erase", "fill", "fillForward"}
         THEN Throws("applyCellAction")
         ELSE NoOp("applyCellAction")
    ELSE LET next == NextGrid(row, col)
         IN IF next = <<>>
            THEN NoOp("applyCellAction")
            ELSE /\ grid' = next[1]
                 /\ history' = pushHistory(history, grid, paintStrokes)
                 /\ future' = <<>>
                 /\ activeStrokeIndex' = 0
                 /\ storage' = persistSnapshot(buildPersistedState(Persisted,
                                                                   [grid |-> next[1]]))
                 /\ UNCHANGED <<rows, cols, zoom, selectedColor, panX, panY, mode,
                                paintStrokes>>
                 /\ op' = Op("applyCellAction", "done", TRUE)
                 /\ run' = RunAfterEdit(next[1], paintStrokes)
                 /\ chain' = NoChain

\* a start that keeps the redo stack
StartPaintStrokeKeepsFuture(point) ==
    IF activeStrokeIndex # 0
    THEN NoOp("startPaintStroke")
    ELSE LET newStroke == [color |-> selectedColor, width |-> DEFAULT_STROKE_WIDTH,
                           points |-> <<point>>]
             strokes == Append(paintStrokes, newStroke)
         IN /\ paintStrokes' = strokes
            /\ history' = pushHistory(history, grid, paintStrokes)
            /\ future' = future
            /\ activeStrokeIndex' = Len(strokes)
            /\ UNCHANGED <<rows, cols, grid, zoom, selectedColor, panX, panY, mode, storage>>
            /\ op' = Op("startPaintStroke", "done", FALSE)
            /\ run' = RunAfterEdit(grid, strokes)
            /\ chain' = NoChain

\* a start that marks the first stroke of the layer as the active one
StartPaintStrokeFirstIndex(point) ==
    IF activeStrokeIndex # 0
    THEN NoOp("startPaintStroke")
    ELSE LET newStroke == [color |-> selectedColor, width |-> DEFAULT_STROKE_WIDTH,
                           points |-> <<point>>]
             strokes == Append(paintStrokes, newStroke)
         IN /\ paintStrokes' = strokes
            /\ history' = pushHistory(history, grid, paintStrokes)
            /\ future' = <<>>
            /\ activeStrokeIndex' = 1
            /\ UNCHANGED <<rows, cols, grid, zoom, selectedColor, panX, panY, mode, storage>>
            /\ op' = Op("startPaintStroke", "done", FALSE)
            /\ run' = RunAfterEdit(grid, strokes)
            /\ chain' = NoChain

StartPaintStroke(point) ==
    IF activeStrokeIndex # 0
    THEN NoOp("startPaintStroke")
    ELSE LET newStroke == [color |-> selectedColor, width |-> DEFAULT_STROKE_WIDTH,
                           points |-> <<point>>]
             strokes == Append(paintStrokes, newStroke)
         IN /\ paintStrokes' = strokes
            /\ history' = pushHistory(history, grid, paintStrokes)
            /\ future' = <<>>
            /\ activeStrokeIndex' = Len(strokes)
            /\ UNCHANGED <<rows, cols, grid, zoom, selectedColor, panX, panY, mode, storage>>
            /\ op' = Op("startPaintStroke", "done", FALSE)
            /\ run' = RunAfterEdit(grid, strokes)
            /\ chain' = NoChain

\* an update that appends the point even when it repeats the last one
\* an update that records an undo snapshot of its own
UpdatePaintStrokePushesHistory(point) ==
    IF activeStrokeIndex = 0
    THEN NoOp("updatePaintStroke")
    ELSE IF activeStrokeIndex > Len(paintStrokes)
    THEN /\ activeStrokeIndex' = 0
         /\ UNCHANGED <<rows, cols, grid, zoom, selectedColor, panX, panY, mode,
                        paintStrokes, history, future, storage>>
         /\ op' = Op("updatePaintStroke", "stale", FALSE)
         /\ run' = NoRun
         /\ chain' = NoChain
    ELSE LET target == paintStrokes[activeStrokeIndex]
             lastPoint == target.points[Len(target.points)]
         IN IF Len(target.points) > 0 /\ lastPoint.x = point.x /\ lastPoint.y = point.y
            THEN NoOp("updatePaintStroke")
            ELSE /\ paintStrokes' = [paintStrokes EXCEPT ![activeStrokeIndex] =
                                        [target EXCEPT !.points = Append(target.points, point)]]
                 /\ history' = pushHistory(history, grid, paintStrokes)
                 /\ UNCHANGED <<rows, cols, grid, zoom, selectedColor, panX, panY, mode,
                                future, activeStrokeIndex, storage>>
                 /\ op' = Op("updatePaintStroke", "done", FALSE)
                 /\ run' = NoRun
                 /\ chain' = NoChain

UpdatePaintStrokeNoDedupe(point) ==
    IF activeStrokeIndex = 0
    THEN NoOp("updatePaintStroke")
    ELSE IF activeStrokeIndex > Len(paintStrokes)
    THEN /\ activeStrokeIndex' = 0
         /\ UNCHANGED <<rows, cols, grid, zoom, selectedColor, panX, panY, mode,
                        paintStrokes, history, future, storage>>
         /\ op' = Op("updatePaintStroke", "stale", FALSE)
         /\ run' = NoRun
         /\ chain' = NoChain
    ELSE LET target == paintStrokes[activeStrokeIndex]
         IN /\ paintStrokes' = [paintStrokes EXCEPT ![activeStrokeIndex] =
                                   [target EXCEPT !.points = Append(target.points, point)]]
            /\ UNCHANGED <<rows, cols, grid, zoom, selectedColor, panX, panY, mode,
                           history, future, activeStrokeIndex, storage>>
            /\ op' = Op("updatePaintStroke", "done", FALSE)
            /\ run' = NoRun
            /\ chain' = NoChain

UpdatePaintStroke(point) ==
    IF activeStrokeIndex = 0
    THEN NoOp("updatePaintStroke")
    ELSE IF activeStrokeIndex > Len(paintStrokes)
    THEN /\ activeStrokeIndex' = 0
         /\ UNCHANGED <<rows, cols, grid, zoom, selectedColor, panX, panY, mode,
                        paintStrokes, history, future, storage>>
         /\ op' = Op("updatePaintStroke", "stale", FALSE)
         /\ run' = NoRun
         /\ chain' = NoChain
    ELSE LET target == paintStrokes[activeStrokeIndex]
             lastPoint == target.points[Len(target.points)]
         IN IF Len(target.points) > 0 /\ lastPoint.x = point.x /\ lastPoint.y = point.y
            THEN NoOp("updatePaintStroke")
            ELSE /\ paintStrokes' = [paintStrokes EXCEPT ![activeStrokeIndex] =
                                        [target EXCEPT !.points = Append(target.points, point)]]
                 /\ UNCHANGED <<rows, cols, grid, zoom, selectedColor, panX, panY, mode,
                                history, future, activeStrokeIndex, storage>>
                 /\ op' = Op("updatePaintStroke", "done", FALSE)
                 /\ run' = NoRun
                 /\ chain' = NoChain

EndPaintStroke ==
    IF activeStrokeIndex = 0
    THEN NoOp("endPaintStroke")
    ELSE /\ storage' = persistSnapshot(buildPersistedState(Persisted,
                                                           [paintStrokes |-> paintStrokes]))
         /\ activeStrokeIndex' = 0
         /\ UNCHANGED <<rows, cols, grid, zoom, selectedColor, panX, panY, mode,
                        paintStrokes, history, future>>
         /\ op' = Op("endPaintStroke", "done", TRUE)
         /\ run' = NoRun
         /\ chain' = NoChain

\* an undo that leaves the active-stroke marker as it is
UndoKeepsActiveStroke ==
    IF Len(history) = 0
    THEN /\ UNCHANGED <<storeVars, storage>>
         /\ op' = Op("undo", "noop", FALSE)
         /\ run' = RunAfterUndo
         /\ chain' = NoChain
    ELSE LET previous == history[Len(history)]
             previousGrid == cloneGrid(previous.grid)
             previousStrokes == clonePaintStrokes(previous.paintStrokes)
             futureSnapshot == Snapshot(grid, paintStrokes)
         IN /\ grid' = previousGrid
            /\ paintStrokes' = previousStrokes
            /\ history' = SubSeq(history, 1, Len(history) - 1)
            /\ future' = <<futureSnapshot>> \o future
            /\ storage' = persistSnapshot(buildPersistedState(Persisted,
                              [grid |-> previousGrid, paintStrokes |-> previousStrokes]))
            /\ UNCHANGED <<rows, cols, zoom, selectedColor, panX, panY, mode,
                           activeStrokeIndex>>
            /\ op' = Op("undo", "done", TRUE)
            /\ run' = RunAfterUndo
            /\ chain' = ChainAfterUndo

\* an undo that also moves the view back to the origin
UndoResetsPan ==
    IF Len(history) = 0
    THEN /\ UNCHANGED <<storeVars, storage>>
         /\ op' = Op("undo", "noop", FALSE)
         /\ run' = RunAfterUndo
         /\ chain' = NoChain
    ELSE LET previous == history[Len(history)]
             previousGrid == cloneGrid(previous.grid)
             previousStrokes == clonePaintStrokes(previous.paintStrokes)
             futureSnapshot == Snapshot(grid, paintStrokes)
         IN /\ grid' = previousGrid
            /\ paintStrokes' = previousStrokes
            /\ history' = SubSeq(history, 1, Len(history) - 1)
            /\ future' = <<futureSnapshot>> \o future
            /\ activeStrokeIndex' = 0
            /\ panX' = 0
            /\ panY' = 0
            /\ storage' = persistSnapshot(buildPersistedState(Persisted,
                              [grid |-> previousGrid, paintStrokes |-> previousStrokes,
                               panX |-> 0, panY |-> 0]))
            /\ UNCHANGED <<rows, cols, zoom, selectedColor, mode>>
            /\ op' = Op("undo", "done", TRUE)
            /\ run' = RunAfterUndo
            /\ chain' = ChainAfterUndo

Undo ==
    IF Len(history) = 0
    THEN /\ UNCHANGED <<storeVars, storage>>
         /\ op' = Op("undo", "noop", FALSE)
         /\ run' = RunAfterUndo
         /\ chain' = NoChain
    ELSE LET previous == history[Len(history)]
             previousGrid == cloneGrid(previous.grid)
             previousStrokes == clonePaintStrokes(previous.paintStrokes)
             futureSnapshot == Snapshot(grid, paintStrokes)
         IN /\ grid' = previousGrid
            /\ paintStrokes' = previousStrokes
            /\ history' = SubSeq(history, 1, Len(history) - 1)
            /\ future' = <<futureSnapshot>> \o future
            /\ activeStrokeIndex' = 0
            /\ storage' = persistSnapshot(buildPersistedState(Persisted,
                              [grid |-> previousGrid, paintStrokes |-> previousStrokes]))
            /\ UNCHANGED <<rows, cols, zoom, selectedColor, panX, panY, mode>>
            /\ op' = Op("undo", "done", TRUE)
            /\ run' = RunAfterUndo
            /\ chain' = ChainAfterUndo

\* a redo that leaves the snapshot it installs on the redo stack
RedoKeepsFuture ==
    IF Len(future) = 0
    THEN NoOp("redo")
    ELSE LET next == future[1]
             nextGrid == cloneGrid(next.grid)
             nextStrokes == clonePaintStrokes(next.paintStrokes)
             historySnapshot == Snapshot(grid, paintStrokes)
         IN /\ grid' = nextGrid
            /\ paintStrokes' = nextStrokes
            /\ history' = Append(history, historySnapshot)
            /\ future' = future
            /\ activeStrokeIndex' = 0
            /\ storage' = persistSnapshot(buildPersistedState(Persisted,
                              [grid |-> nextGrid, paintStrokes |-> nextStrokes]))
            /\ UNCHANGED <<rows, cols, zoom, selectedColor, panX, panY, mode>>
            /\ op' = Op("redo", "done", TRUE)
            /\ run' = NoRun
            /\ chain' = ChainAfterRedo

\* a redo that records no undo snapshot of the state it leaves
RedoForgetsHistory ==
    IF Len(future) = 0
    THEN NoOp("redo")
    ELSE LET next == future[1]
             nextGrid == cloneGrid(next.grid)
             nextStrokes == clonePaintStrokes(next.paintStrokes)
         IN /\ grid' = nextGrid
            /\ paintStrokes' = nextStrokes
            /\ history' = history
            /\ future' = Shift(future)
            /\ activeStrokeIndex' = 0
            /\ storage' = persistSnapshot(buildPersistedState(Persisted,
                              [grid |-> nextGrid, paintStrokes |-> nextStrokes]))
            /\ UNCHANGED <<rows, cols, zoom, selectedColor, panX, panY, mode>>
            /\ op' = Op("redo", "done", TRUE)
            /\ run' = NoRun
            /\ chain' = ChainAfterRedo

Redo ==
    IF Len(future) = 0
    THEN NoOp("redo")
    ELSE LET next == future[1]
             nextGrid == cloneGrid(next.grid)
             nextStrokes == clonePaintStrokes(next.paintStrokes)
             historySnapshot == Snapshot(grid, paintStrokes)
         IN /\ grid' = nextGrid
            /\ paintStrokes' = nextStrokes
            /\ history' = Append(history, historySnapshot)
            /\ future' = Shift(future)
            /\ activeStrokeIndex' = 0
            /\ storage' = persistSnapshot(buildPersistedState(Persisted,
                              [grid |-> nextGrid, paintStrokes |-> nextStrokes]))
            /\ UNCHANGED <<rows, cols, zoom, selectedColor, panX, panY, mode>>
            /\ op' = Op("redo", "done", TRUE)
            /\ run' = NoRun
            /\ chain' = ChainAfterRedo

\* a clear that keeps the redo stack
ClearKeepsFuture ==
    LET cleared == createEmptyGrid(rows, cols)
    IN /\ grid' = cleared
       /\ paintStrokes' = <<>>
       /\ history' = <<>>
       /\ future' = future
       /\ activeStrokeIndex' = 0
       /\ storage' = persistSnapshot(buildPersistedState(Persisted,
                         [grid |-> cleared, paintStrokes |-> <<>>]))
       /\ UNCHANGED <<rows, cols, zoom, selectedColor, panX, panY, mode>>
       /\ op' = Op("clear", "done", TRUE)
       /\ run' = NoRun
       /\ chain' = NoChain

\* a clear that goes through history like an edit
ClearThroughHistory ==
    LET cleared == createEmptyGrid(rows, cols)
    IN /\ grid' = cleared
       /\ paintStrokes' = <<>>
       /\ history' = pushHistory(history, grid, paintStrokes)
       /\ future' = <<>>
       /\ activeStrokeIndex' = 0
       /\ storage' = persistSnapshot(buildPersistedState(Persisted,
                         [grid |-> cleared, paintStrokes |-> <<>>]))
       /\ UNCHANGED <<rows, cols, zoom, selectedColor, panX, panY, mode>>
       /\ op' = Op("clear", "done", TRUE)
       /\ run' = NoRun
       /\ chain' = NoChain

Clear ==
    LET cleared == createEmptyGrid(rows, cols)
    IN /\ grid' = cleared
       /\ paintStrokes' = <<>>
       /\ history' = <<>>
       /\ future' = <<>>
       /\ activeStrokeIndex' = 0
       /\ storage' = persistSnapshot(buildPersistedState(Persisted,
                         [grid |-> cleared, paintStrokes |-> <<>>]))
       /\ UNCHANGED <<rows, cols, zoom, selectedColor, panX, panY, mode>>
       /\ op' = Op("clear", "done", TRUE)
       /\ run' = NoRun
       /\ chain' = NoChain

\* color = "" is the falsy string
SetSelectedColor(color) ==
    IF color = ""
    THEN NoOp("setSelectedColor")
    ELSE /\ selectedColor' = color
         /\ storage' = persistSnapshot(buildPersistedState(Persisted,
                                                           [selectedColor |-> color]))
         /\ UNCHANGED <<rows, cols, grid, zoom, panX, panY, mode, paintStrokes,
                        history, future, activeStrokeIndex>>
         /\ op' = Op("setSelectedColor", "done", TRUE)
         /\ run' = NoRun
         /\ chain' = NoChain

\* a resize that keeps the overlapping region only and allocates nothing new
ResizedInPlace(nextRows, nextCols) ==
    [i \in 1..Min2(nextRows, rows) |-> [j \in 1..Min2(nextCols, cols) |-> grid[i][j]]]

\* a resize that allocates the new grid and copies nothing into it
ResizedEmpty(nextRows, nextCols) == createEmptyGrid(nextRows, nextCols)

\* the copy loop of lines 455-460
Resized(nextRows, nextCols) ==
    [i \in 1..nextRows |->
        [j \in 1..nextCols |->
            IF i <= Min2(nextRows, rows) /\ j <= Min2(nextCols, cols)
            THEN grid[i][j] ELSE Null]]

\* a resize that keeps the undo and redo stacks
SetGridSizeKeepsHistory(r, c) ==
    LET nextRows == clampGridSize(r)
        nextCols == clampGridSize(c)
    IN IF nextRows = rows /\ nextCols = cols
       THEN NoOp("setGridSize")
       ELSE LET resized == Resized(nextRows, nextCols)
            IN /\ rows' = nextRows
               /\ cols' = nextCols
               /\ grid' = resized
               /\ paintStrokes' = <<>>
               /\ panX' = 0
               /\ panY' = 0
               /\ activeStrokeIndex' = 0
               /\ storage' = persistSnapshot(buildPersistedState(Persisted,
                                 [rows |-> nextRows, cols |-> nextCols, grid |-> resized,
                                  panX |-> 0, panY |-> 0, paintStrokes |-> <<>>]))
               /\ UNCHANGED <<zoom, selectedColor, mode, history, future>>
               /\ op' = Op("setGridSize", "done", TRUE)
               /\ run' = NoRun
               /\ chain' = NoChain

\* r and c are numbers (in halves)
SetGridSize(r, c) ==
    LET nextRows == clampGridSize(r)
        nextCols == clampGridSize(c)
    IN IF nextRows = rows /\ nextCols = cols
       THEN NoOp("setGridSize")
       ELSE LET resized == Resized(nextRows, nextCols)
            IN /\ rows' = nextRows
               /\ cols' = nextCols
               /\ grid' = resized
               /\ paintStrokes' = <<>>
               /\ history' = <<>>
               /\ future' = <<>>
               /\ panX' = 0
               /\ panY' = 0
               /\ activeStrokeIndex' = 0
               /\ storage' = persistSnapshot(buildPersistedState(Persisted,
                                 [rows |-> nextRows, cols |-> nextCols, grid |-> resized,
                                  panX |-> 0, panY |-> 0, paintStrokes |-> <<>>]))
               /\ UNCHANGED <<zoom, selectedColor, mode>>
               /\ op' = Op("setGridSize", "done", TRUE)
               /\ run' = NoRun
               /\ chain' = NoChain

\* a setPan that writes to storage whatever the persist flag says
SetPanAlwaysPersists(x, y, persist) ==
    /\ storage' = persistSnapshot(buildPersistedState(Persisted, [panX |-> x, panY |-> y]))
    /\ panX' = x
    /\ panY' = y
    /\ UNCHANGED <<rows, cols, grid, zoom, selectedColor, mode, paintStrokes,
                   history, future, activeStrokeIndex>>
    /\ op' = Op("setPan", IF panX = x /\ panY = y THEN "noop" ELSE "done", TRUE)
    /\ run' = NoRun
    /\ chain' = NoChain

SetPan(x, y, persist) ==
    /\ storage' = IF persist
                  THEN persistSnapshot(buildPersistedState(Persisted,
                                                           [panX |-> x, panY |-> y]))
                  ELSE storage
    /\ panX' = x
    /\ panY' = y
    /\ UNCHANGED <<rows, cols, grid, zoom, selectedColor, mode, paintStrokes,
                   history, future, activeStrokeIndex>>
    /\ op' = Op("setPan", IF panX = x /\ panY = y THEN "noop" ELSE "done", persist)
    /\ run' = NoRun
    /\ chain' = NoChain

\* serialize(): the document, as JSON.parse reads it back
serialize == JPersisted(Persisted)

\* the test without its last conjunct
ShapeValidIgnoresGrid(payload) ==
    /\ payload.t = "obj"
    /\ payload.v.rows.t = "num"
    /\ payload.v.cols.t = "num"

\* the test of lines 512-516 on the value JSON.parse returned: rows and cols are numbers
\* and grid is an array (a value that is not an object has no such fields)
ShapeValid(payload) ==
    /\ payload.t = "obj"
    /\ payload.v.rows.t = "num"
    /\ payload.v.cols.t = "num"
    /\ payload.v.grid.t = "arr"

\* a decoder that keeps the store's value where the document has none
DeserializedStateMerged(parsed) ==
    LET nextRows == clampGridSize(parsed.rows.v)
        nextCols == clampGridSize(parsed.cols.v)
        nextGrid == normalizeGrid(parsed.grid, nextRows, nextCols)
        nextColor == IF parsed.selectedColor.t = "str"
                     THEN parsed.selectedColor.v ELSE selectedColor
        nextPanX == IF parsed.panX.t = "num" THEN parsed.panX.v ELSE panX
        nextPanY == IF parsed.panY.t = "num" THEN parsed.panY.v ELSE panY
        nextZoom == IF parsed.zoom.t = "num"
                    THEN clamp(parsed.zoom.v, MIN_ZOOM, MAX_ZOOM) ELSE zoom
        nextPaintStrokes == normalizePaintStrokes(parsed.paintStrokes)
    IN [rows |-> nextRows, cols |-> nextCols, grid |-> nextGrid,
        zoom |-> nextZoom, selectedColor |-> nextColor,
        panX |-> nextPanX, panY |-> nextPanY,
        paintStrokes |-> nextPaintStrokes]

\* the PersistedGridState that deserialize computes from a shape-valid parsed value
DeserializedState(parsed) ==
    LET nextRows == clampGridSize(parsed.rows.v)
        nextCols == clampGridSize(parsed.cols.v)
        nextGrid == normalizeGrid(parsed.grid, nextRows, nextCols)
        nextColor == IF parsed.selectedColor.t = "str"
                     THEN parsed.selectedColor.v ELSE DEFAULT_COLOR
        nextPanX == IF parsed.panX.t = "num" THEN parsed.panX.v ELSE 0
        nextPanY == IF parsed.panY.t = "num" THEN parsed.panY.v ELSE 0
        nextZoom == IF parsed.zoom.t = "num"
                    THEN clamp(parsed.zoom.v, MIN_ZOOM, MAX_ZOOM) ELSE 2
        nextPaintStrokes == normalizePaintStrokes(parsed.paintStrokes)
    IN [rows |-> nextRows, cols |-> nextCols, grid |-> nextGrid,
        zoom |-> nextZoom, selectedColor |-> nextColor,
        panX |-> nextPanX, panY |-> nextPanY,
        paintStrokes |-> nextPaintStrokes]

\* an import that keeps the undo and redo stacks
DeserializeKeepsStacks(payload) ==
    IF payload.t = "bad" \/ payload.t = "null"
    THEN /\ UNCHANGED <<storeVars, storage>>
         /\ op' = Op("deserialize", "warned", FALSE)
         /\ run' = NoRun
         /\ chain' = NoChain
    ELSE IF ~ShapeValid(payload)
    THEN NoOp("deserialize")
    ELSE LET next == DeserializedState(payload.v)
         IN /\ rows' = next.rows
            /\ cols' = next.cols
            /\ grid' = next.grid
            /\ zoom' = next.zoom
            /\ selectedColor' = next.selectedColor
            /\ panX' = next.panX
            /\ panY' = next.panY
            /\ paintStrokes' = next.paintStrokes
            /\ history' = history
            /\ future' = future
            /\ activeStrokeIndex' = 0
            /\ storage' = persistSnapshot(next)
            /\ UNCHANGED mode
            /\ op' = Op("deserialize", "done", TRUE)
            /\ run' = NoRun
            /\ chain' = NoChain

\* the payload is a text that does not parse (BadText) or the value JSON.parse returns
Deserialize(payload) ==
    IF payload.t = "bad" \/ payload.t = "null"
    THEN \* JSON.parse throws, or reading parsed.rows of null throws: caught and warned
         /\ UNCHANGED <<storeVars, storage>>
         /\ op' = Op("deserialize", "warned", FALSE)
         /\ run' = NoRun
         /\ chain' = NoChain
    ELSE IF ~ShapeValid(payload)
    THEN NoOp("deserialize")
    ELSE LET next == DeserializedState(payload.v)
         IN /\ rows' = next.rows
            /\ cols' = next.cols
            /\ grid' = next.grid
            /\ zoom' = next.zoom
            /\ selectedColor' = next.selectedColor
            /\ panX' = next.panX
            /\ panY' = next.panY
            /\ paintStrokes' = next.paintStrokes
            /\ history' = <<>>
            /\ future' = <<>>
            /\ activeStrokeIndex' = 0
            /\ storage' = persistSnapshot(next)
            /\ UNCHANGED mode
            /\ op' = Op("deserialize", "done", TRUE)
            /\ run' = NoRun
            /\ chain' = NoChain

\* a load that keeps the undo and redo stacks and the active stroke
LoadFromStorageKeepsStacks ==
    LET read == readSnapshot(storage)
    IN IF read = <<>>
       THEN NoOp("loadFromStorage")
       ELSE LET stored == read[1]
                nextRows == clampGridSize(stored.rows)
                nextCols == clampGridSize(stored.cols)
                normalizedGrid == normalizeGrid(JGrid(stored.grid), nextRows, nextCols)
            IN /\ rows' = nextRows
               /\ cols' = nextCols
               /\ grid' = normalizedGrid
               /\ zoom' = clamp(stored.zoom, MIN_ZOOM, MAX_ZOOM)
               /\ selectedColor' = stored.selectedColor
               /\ panX' = stored.panX
               /\ panY' = stored.panY
               /\ paintStrokes' = normalizePaintStrokes(JStrokes(stored.paintStrokes))
               /\ UNCHANGED <<mode, storage, history, future, activeStrokeIndex>>
               /\ op' = Op("loadFromStorage", "done", FALSE)
               /\ run' = NoRun
               /\ chain' = NoChain

LoadFromStorage ==
    LET read == readSnapshot(storage)
    IN IF read = <<>>
       THEN NoOp("loadFromStorage")
       ELSE LET stored == read[1]
                nextRows == clampGridSize(stored.rows)
                nextCols == clampGridSize(stored.cols)
                normalizedGrid == normalizeGrid(JGrid(stored.grid), nextRows, nextCols)
            IN /\ rows' = nextRows
               /\ cols' = nextCols
               /\ grid' = normalizedGrid
               /\ zoom' = clamp(stored.zoom, MIN_ZOOM, MAX_ZOOM)
               /\ selectedColor' = stored.selectedColor
               /\ panX' = stored.panX
               /\ panY' = stored.panY
               /\ paintStrokes' = normalizePaintStrokes(JStrokes(stored.paintStrokes))
               /\ history' = <<>>
               /\ future' = <<>>
               /\ activeStrokeIndex' = 0
               /\ UNCHANGED <<mode, storage>>
               /\ op' = Op("loadFromStorage", "done", FALSE)
               /\ run' = NoRun
               /\ chain' = NoChain

(* ------------------------------------------------------------------ *)
(* Arguments the operations are called with                            *)
(* ------------------------------------------------------------------ *)
\* row and col of a click: every cell of the largest grid and one step outside on each side
CellArgs == (0 - 1)..MAX_GRID_SIZE

\* requested zoom (in halves): below, inside and above the limits
ZoomArgs == {MIN_ZOOM - 1, 3, MAX_ZOOM + 2}

\* zoom steps (in halves)
DeltaArgs == {0 - 1, 1}

\* requested sizes (in halves): negative, below the minimum, the minimum, the minimum
\* and a half, the maximum, above the maximum
SizeArgs == {0 - 2, ToNum(MIN_GRID_SIZE) - 2, ToNum(MIN_GRID_SIZE), ToNum(MIN_GRID_SIZE) + 1,
             ToNum(MAX_GRID_SIZE), ToNum(MAX_GRID_SIZE) + 3}

\* requested pans (in halves)
PanArgs == <<[x |-> 0, y |-> 0], [x |-> 5, y |-> 0 - 3]>>

PointArgs == {[x |-> 1, y |-> 1], [x |-> 3, y |-> 2]}

ColorArgs == {"", DEFAULT_COLOR, OTHER_COLOR}

JMissingStroke == [color |-> JUndef, width |-> JUndef, points |-> JUndef]

JMissing == [rows |-> JUndef, cols |-> JUndef, grid |-> JUndef, zoom |-> JUndef,
             selectedColor |-> JUndef, panX |-> JUndef, panY |-> JUndef,
             paintStrokes |-> JUndef]

\* a document with every field valid: a MIN_GRID_SIZE-square grid in the legacy 0/1
\* form with one string cell, and one stroke
DocValid ==
    JObj([JMissing EXCEPT
            !.rows = JNum(ToNum(MIN_GRID_SIZE)),
            !.cols = JNum(ToNum(MIN_GRID_SIZE)),
            !.grid = JArr([i \in 1..MIN_GRID_SIZE |->
                              JArr([j \in 1..MIN_GRID_SIZE |->
                                       IF i = j THEN JNum(2)
                                       ELSE IF i < j THEN JStr(OTHER_COLOR) ELSE JNum(0)])]),
            !.zoom = JNum(3),
            !.selectedColor = JStr(OTHER_COLOR),
            !.panX = JNum(5),
            !.panY = JNum(0 - 3),
            !.paintStrokes = JArr(<<JObj([color |-> JStr(OTHER_COLOR), width |-> JNum(2),
                                          points |-> JArr(<<JPoint([x |-> 1, y |-> 1])>>)])>>)])

\* sizes and zoom out of range, a fractional size, a short grid with a non-array row,
\* strokes that are dropped or defaulted, the optional fields missing
DocOutOfRange ==
    JObj([JMissing EXCEPT
            !.rows = JNum(ToNum(MAX_GRID_SIZE) + 7),
            !.cols = JNum(1),
            !.grid = JArr(<<JArr(<<JStr(DEFAULT_COLOR), JNull, JStr(OTHER_COLOR), JNum(0 - 2),
                                   JStr(DEFAULT_COLOR)>>),
                            JNum(2)>>),
            !.zoom = JNum(MAX_ZOOM + 12),
            !.paintStrokes = JArr(<<JNull,
                                    JObj(JMissingStroke),
                                    JObj([JMissingStroke EXCEPT
                                            !.points = JArr(<<JNull, JObj([x |-> JStr("1"),
                                                                           y |-> JNum(1)])>>)]),
                                    JObj([JMissingStroke EXCEPT
                                            !.width = JNum(0),
                                            !.points = JArr(<<JNull,
                                                              JPoint([x |-> 3, y |-> 2])>>)])>>)])

\* zoom below the minimum, fractional sizes
DocFractional ==
    JObj([JMissing EXCEPT
            !.rows = JNum(ToNum(MIN_GRID_SIZE) + 1),
            !.cols = JNum(ToNum(MIN_GRID_SIZE) + 1),
            !.grid = JArr(<<>>),
            !.zoom = JNum(0)])

\* rows is a string
DocStringRows == JObj([DocValid.v EXCEPT !.rows = JStr("2")])

\* grid is not an array
DocNoGrid == JObj([DocValid.v EXCEPT !.grid = JNull])

\* the payloads handed to deserialize
Payloads == <<DocValid, DocOutOfRange, DocFractional, DocStringRows, DocNoGrid,
              BadText, JNull, JNum(5)>>

\* what localStorage may hold when the editor starts
InitialStorage == <<NoItem, BadText, DocOutOfRange, DocStringRows>>

(* ------------------------------------------------------------------ *)
(* The store machine: every operation, from the constructed store      *)
(* ------------------------------------------------------------------ *)
Init ==
    /\ InitStore
    /\ \E i \in 1..Len(InitialStorage) : storage = InitialStorage[i]
    /\ InitObservers
    /\ InitComponent

Next ==
    /\ steps < MaxSteps
    /\ steps' = steps + 1
    /\ \/ \E m \in GridMode : SetMode(m)
       \/ \E z \in ZoomArgs : SetZoom(z)
       \/ \E d \in DeltaArgs : BumpZoom(d)
       \/ \E row \in CellArgs, col \in CellArgs : ApplyCellAction(row, col)
       \/ \E point \in PointArgs : StartPaintStroke(point)
       \/ \E point \in PointArgs : UpdatePaintStroke(point)
       \/ EndPaintStroke
       \/ Undo
       \/ Redo
       \/ Clear
       \/ \E color \in ColorArgs : SetSelectedColor(color)
       \/ \E r \in SizeArgs, c \in SizeArgs : SetGridSize(r, c)
       \/ \E i \in 1..Len(PanArgs), persist \in BOOLEAN :
             SetPan(PanArgs[i].x, PanArgs[i].y, persist)
       \/ \E i \in 1..Len(Payloads) : Deserialize(Payloads[i])
       \/ LoadFromStorage
    /\ track' = TrackNext
    /\ UNCHANGED probe
    /\ UNCHANGED <<componentVars, handler>>

Spec == Init /\ [][Next]_vars

(* ------------------------------------------------------------------ *)
(* Properties of the store machine                                     *)
(* ------------------------------------------------------------------ *)
\* the number of consecutive edits of the current run
RunEdits == Len(run.trail) - 1

\* the undo directly after the k-th consecutive edit (k >= 1) has just been called
UndoRightAfterEdit == run.undone = 1 /\ Len(run.trail) >= 2

\* C1: when an edit that goes through history (an applyCellAction that changes the grid,
\* a startPaintStroke with no stroke active) is immediately followed by undo(), grid and
\* paintStrokes equal their values just before that edit.
C1_UndoRestoresStateBeforeEdit ==
    UndoRightAfterEdit =>
        /\ grid = run.trail[Len(run.trail) - 1].grid
        /\ paintStrokes = run.trail[Len(run.trail) - 1].paintStrokes

\* an undo has followed an edit made after other operations, and it changed the state back
C1_Witness ==
    /\ UndoRightAfterEdit
    /\ op.name = "undo" /\ op.case = "done"
    /\ steps >= 3
    /\ Snap(grid, paintStrokes) # run.trail[Len(run.trail)]
    /\ Len(paintStrokes) > 0

\* the operation of this step is neither undo nor redo and changes grid or paintStrokes
EditStep ==
    /\ op'.name \notin {"undo", "redo"}
    /\ grid' # grid \/ paintStrokes' # paintStrokes

\* C4: after every operation other than undo/redo that changes grid or paintStrokes the
\* redo stack is empty, and redo() on an empty redo stack changes nothing.
C4_EditClearsRedoStack ==
    [][/\ EditStep => future' = <<>>
       /\ (op'.name = "redo" /\ future = <<>>) => UNCHANGED <<storeVars, storage>>]_vars

\* an edit has been made while the redo stack held a snapshot
C4_Witness ==
    /\ op.name \in {"applyCellAction", "startPaintStroke", "clear", "setGridSize",
                    "deserialize", "loadFromStorage"}
    /\ op.case = "done"
    /\ op.hadFuture
    /\ future = <<>>

\* C5: the grid has exactly `rows` rows, every row has exactly `cols` cells, and every
\* cell is a string or empty.
C5_GridIsDense ==
    /\ Len(grid) = rows
    /\ \A i \in 1..Len(grid) :
          /\ Len(grid[i]) = cols
          /\ \A j \in 1..Len(grid[i]) : grid[i][j] \in STRING /\ grid[i][j] # Undefined

\* a stored document whose sizes were out of range and whose grid was short has been loaded
C5_Witness ==
    /\ op.name = "loadFromStorage" /\ op.case = "done"
    /\ rows = MAX_GRID_SIZE /\ cols = MIN_GRID_SIZE
    /\ grid[1][1] = DEFAULT_COLOR

\* C6: zoom lies in [MIN_ZOOM, MAX_ZOOM] and rows and cols lie in
\* [MIN_GRID_SIZE, MAX_GRID_SIZE].
C6_ZoomAndSizeInRange ==
    /\ zoom >= MIN_ZOOM /\ zoom <= MAX_ZOOM
    /\ rows >= MIN_GRID_SIZE /\ rows <= MAX_GRID_SIZE
    /\ cols >= MIN_GRID_SIZE /\ cols <= MAX_GRID_SIZE

\* a payload with sizes and zoom out of range has been imported and clamped
C6_Witness ==
    /\ op.name = "deserialize" /\ op.case = "done"
    /\ rows = MAX_GRID_SIZE /\ cols = MIN_GRID_SIZE /\ zoom = MAX_ZOOM

InBounds(row, col) == row >= 0 /\ col >= 0 /\ row < rows /\ col < cols

\* the cases in which applyCellAction(row, col) is to do nothing
NoOpCase(row, col) ==
    \/ ~InBounds(row, col)
    \/ mode \in {"pan", "paint"}
    \/ mode = "draw" /\ CellAt(grid, row, col) = selectedColor
    \/ mode = "erase" /\ CellAt(grid, row, col) = Null
    \/ mode \in {"fill", "fillForward"} /\ CellAt(grid, row, col) = selectedColor

\* C9: every no-op case of applyCellAction (out of bounds, mode pan or paint, draw on a
\* cell of selectedColor, erase on an empty cell, fill or fillForward on a cell of
\* selectedColor) leaves the whole store unchanged and writes nothing to storage.
C9_NoOpCellActionChangesNothing ==
    [][op'.name = "applyCellAction" => \A row \in CellArgs, col \in CellArgs :
          (NoOpCase(row, col) /\ ApplyCellAction(row, col))
          => /\ UNCHANGED <<storeVars, storage>>
             /\ ~op'.wrote]_vars

\* a click on an already filled grid, in a fill mode, with an undo stack, a redo-free
\* future and strokes in place, has been a no-op
C9_Witness ==
    /\ op.name = "applyCellAction" /\ op.case = "noop" /\ ~op.wrote
    /\ mode \in {"fill", "fillForward"}
    /\ Len(history) > 0
    /\ \A q \in {<<i, j>> : i \in 1..rows, j \in 1..cols} : grid[q[1]][q[2]] = selectedColor

\* C10: in mode draw (erase), applyCellAction on an in-bounds cell that is not
\* selectedColor (not empty) sets that cell to selectedColor (empty) and leaves every
\* other cell, the paint strokes, the dimensions, the viewport and selectedColor unchanged.
C10_DrawAndEraseSetOneCell ==
    [][op'.name = "applyCellAction" => \A row \in CellArgs, col \in CellArgs :
          /\ (/\ mode = "draw"
              /\ InBounds(row, col)
              /\ CellAt(grid, row, col) # selectedColor
              /\ ApplyCellAction(row, col))
             => /\ grid' = [i \in 1..rows |-> [j \in 1..cols |->
                               IF i = row + 1 /\ j = col + 1 THEN selectedColor
                               ELSE grid[i][j]]]
                /\ UNCHANGED <<paintStrokes, rows, cols, zoom, panX, panY, selectedColor>>
          /\ (/\ mode = "erase"
              /\ InBounds(row, col)
              /\ CellAt(grid, row, col) # Null
              /\ ApplyCellAction(row, col))
             => /\ grid' = [i \in 1..rows |-> [j \in 1..cols |->
                               IF i = row + 1 /\ j = col + 1 THEN Null ELSE grid[i][j]]]
                /\ UNCHANGED <<paintStrokes, rows, cols, zoom, panX, panY,
                               selectedColor>>]_vars

\* a cell of an imported grid with a stroke has been erased, the other cells staying colored
C10_Witness ==
    /\ op.name = "applyCellAction" /\ op.case = "done"
    /\ mode = "erase"
    /\ Len(paintStrokes) > 0
    /\ Len(history) = 1
    /\ \E i \in 1..rows, j \in 1..cols :
          /\ grid[i][j] = Null /\ history[1].grid[i][j] # Null
          /\ \E k \in 1..rows, l \in 1..cols :
                <<k, l>> # <<i, j>> /\ grid[k][l] # Null

\* C11: every applyCellAction that changes the grid appends exactly one snapshot to the
\* undo stack (the oldest one leaving a full stack), equal to grid and paintStrokes as
\* they were immediately before the change, and empties the redo stack.
C11_CellActionPushesOneSnapshot ==
    [][(op'.name = "applyCellAction" /\ grid' # grid) =>
          /\ Len(history') >= 1
          /\ history'[Len(history')] = Snap(grid, paintStrokes)
          /\ SubSeq(history', 1, Len(history') - 1) =
                (IF Len(history) < MAX_HISTORY THEN history
                 ELSE SubSeq(history, 2, Len(history)))
          /\ future' = <<>>]_vars

\* a cell edit has pushed its snapshot, strokes included, onto a full undo stack
C11_Witness ==
    /\ op.name = "applyCellAction" /\ op.case = "done"
    /\ RunEdits > MAX_HISTORY
    /\ Len(history) = MAX_HISTORY
    /\ Len(history[MAX_HISTORY].paintStrokes) > 0
    /\ history[MAX_HISTORY].grid # grid

\* C14: undo() with an empty undo stack and redo() with an empty redo stack leave the
\* entire store unchanged and write nothing to storage; a successful undo() or redo()
\* leaves no stroke active.
C14_UndoRedoEmptyAndActiveStroke ==
    [][/\ (op'.name = "undo" /\ history = <<>>)
          => (UNCHANGED <<storeVars, storage>> /\ ~op'.wrote)
       /\ (op'.name = "redo" /\ future = <<>>)
          => (UNCHANGED <<storeVars, storage>> /\ ~op'.wrote)
       /\ (op'.name = "undo" /\ history # <<>>) => activeStrokeIndex' = 0
       /\ (op'.name = "redo" /\ future # <<>>) => activeStrokeIndex' = 0]_vars

\* a stroke was undone while it was being drawn
C14_Witness ==
    /\ op.name = "undo" /\ op.case = "done" /\ op.hadStroke
    /\ activeStrokeIndex = 0
    /\ Len(future) > 0 /\ Len(future[1].paintStrokes) > 0

\* C16: setGridSize from (R, C) to a different clamped size (R', C') produces a grid of
\* R' rows of C' cells where the cell (i, j) is the former cell (i, j) for i < min(R, R')
\* and j < min(C, C') and every other cell is empty.
C16_ResizeKeepsOverlap ==
    [][(op'.name = "setGridSize" /\ <<rows', cols'>> # <<rows, cols>>) =>
          /\ Len(grid') = rows'
          /\ \A i \in 1..rows' :
                /\ Len(grid'[i]) = cols'
                /\ \A j \in 1..cols' :
                      grid'[i][j] = IF i <= Min2(rows, rows') /\ j <= Min2(cols, cols')
                                    THEN grid[i][j] ELSE Null]_vars

\* a grid with a colored cell has been resized to the fewest rows and the most columns:
\* the colored cell is kept and the last column is empty
C16_Witness ==
    /\ op.name = "setGridSize" /\ op.case = "done"
    /\ rows = MIN_GRID_SIZE /\ cols = MAX_GRID_SIZE
    /\ grid[1][1] # Null
    /\ \A i \in 1..rows : grid[i][cols] = Null

\* Math.round of the request, brought into the size limits
ExpectedSize(v) ==
    LET n == MathRound(v)
    IN IF n < MIN_GRID_SIZE THEN MIN_GRID_SIZE
       ELSE IF n > MAX_GRID_SIZE THEN MAX_GRID_SIZE ELSE n

\* C17: setGridSize clamps both arguments to [MIN_GRID_SIZE, MAX_GRID_SIZE]; when the
\* clamped size equals the current size the whole store is unchanged; otherwise it drops
\* all paint strokes, resets pan to (0, 0), empties the undo and redo stacks and clears
\* the active stroke, so that an undo() or redo() right after a resize changes nothing.
C17_ResizeClampsAndResets ==
    [][/\ op'.name = "setGridSize" => \A r \in SizeArgs, c \in SizeArgs :
             SetGridSize(r, c) =>
                IF ExpectedSize(r) = rows /\ ExpectedSize(c) = cols
                THEN UNCHANGED <<storeVars, storage>>
                ELSE /\ rows' = ExpectedSize(r)
                     /\ cols' = ExpectedSize(c)
                     /\ paintStrokes' = <<>>
                     /\ panX' = 0 /\ panY' = 0
                     /\ history' = <<>> /\ future' = <<>>
                     /\ activeStrokeIndex' = 0
       /\ (op.name = "setGridSize" /\ op.case = "done" /\ op'.name \in {"undo", "redo"})
          => UNCHANGED <<storeVars, storage>>]_vars

\* an undo right after a resize of an edited grid, with an undo stack and a stroke, has
\* done nothing
C17_Witness ==
    /\ track.phase = "resizedUndone"
    /\ op.name = "undo" /\ op.case = "noop"
    /\ Len(track.history) > 0
    /\ Len(track.paintStrokes) > 0
    /\ paintStrokes = <<>>

\* the effect of a zoom request z
ZoomEffect(z) ==
    /\ zoom' = (IF z < MIN_ZOOM THEN MIN_ZOOM ELSE IF z > MAX_ZOOM THEN MAX_ZOOM ELSE z)
    /\ UNCHANGED <<grid, paintStrokes, history, future>>
    /\ op'.wrote
    /\ storage'.t = "obj"
    /\ storage'.v.zoom = JNum(zoom')
    /\ storage'.v.panX = JNum(panX')
    /\ storage'.v.panY = JNum(panY')

\* C18: setZoom(z) and bumpZoom(d) set zoom to z (zoom + d) brought into
\* [MIN_ZOOM, MAX_ZOOM], leave grid, paintStrokes, the undo stack and the redo stack
\* unchanged, and write the new viewport to storage.
C18_ZoomClampsAndPersists ==
    [][/\ op'.name = "setZoom" => \A z \in ZoomArgs : SetZoom(z) => ZoomEffect(z)
       /\ op'.name = "bumpZoom" => \A d \in DeltaArgs : BumpZoom(d) => ZoomEffect(zoom + d)]_vars

\* a zoom step past the upper limit has been made while a redo was pending
C18_Witness ==
    /\ op.name = "bumpZoom" /\ op.hadFuture
    /\ Len(future) > 0
    /\ zoom = MAX_ZOOM
    /\ storage.t = "obj" /\ storage.v.zoom = JNum(MAX_ZOOM)

\* C19: setMode(mode) has no history effect and, when called while a paint stroke is
\* active and the new mode is not paint, leaves no stroke active in the store.
C19_SetModeEndsActiveStroke ==
    [][op'.name = "setMode" =>
          /\ UNCHANGED <<history, future>>
          /\ (activeStrokeIndex # 0 /\ mode' # "paint") => activeStrokeIndex' = 0]_vars

\* every cell of the grid is empty, the grid being rows x cols
GridIsEmpty ==
    /\ Len(grid) = rows
    /\ \A i \in 1..rows : Len(grid[i]) = cols /\ \A j \in 1..cols : grid[i][j] = Null

\* C15: clear() yields an all-empty grid of the current rows x cols, an empty stroke list,
\* empty undo and redo stacks and no active stroke; the undos and redos right after it
\* are no-ops, so that the content before the clear does not come back.
C15_ClearIsTotalAndFinal ==
    /\ op.name = "clear" =>
          /\ GridIsEmpty
          /\ paintStrokes = <<>>
          /\ history = <<>> /\ future = <<>>
          /\ activeStrokeIndex = 0
    /\ track.phase = "clearedUndone" =>
          /\ op.case = "noop"
          /\ GridIsEmpty
          /\ paintStrokes = <<>>
          /\ history = <<>> /\ future = <<>>

\* an edited grid with an undo stack was cleared, and undo and redo were then tried
C15_Witness ==
    /\ track.phase = "clearedUndone"
    /\ op.name = "redo"
    /\ Len(track.history) > 0
    /\ \E i \in 1..rows, j \in 1..cols : track.grid[i][j] # Null

(* ------------------------------------------------------------------ *)
(* The history machine: the edits that go through history, undo and    *)
(* redo, from the constructed store, in runs long enough to overflow   *)
(* the undo stack and to unwind it                                     *)
(* ------------------------------------------------------------------ *)
\* rows and columns clicked in the history machine: the four top-left cells
HistoryCellArgs == {0, 1}

InitHistory ==
    /\ InitStore
    /\ storage = NoItem
    /\ InitObservers
    /\ InitComponent

NextHistory ==
    /\ steps < MaxHistorySteps
    /\ steps' = steps + 1
    /\ \/ \E row \in HistoryCellArgs, col \in HistoryCellArgs : ApplyCellAction(row, col)
       \/ \E point \in PointArgs : StartPaintStroke(point)
       \/ \E point \in PointArgs : UpdatePaintStroke(point)
       \/ EndPaintStroke
       \/ Undo
       \/ Redo
    /\ track' = TrackNext
    /\ UNCHANGED probe
    /\ UNCHANGED <<componentVars, handler>>

SpecHistory == InitHistory /\ [][NextHistory]_vars

\* n undos have been directly followed by n redos
RoundTripDone == chain.undos > 0 /\ chain.redos = chain.undos

\* C2: n >= 1 successful undos directly followed by n redos leave grid, paintStrokes,
\* the undo stack and the redo stack as they were before the first of the undos.
C2_UndoRedoRoundTrip ==
    RoundTripDone =>
        /\ grid = chain.grid
        /\ paintStrokes = chain.paintStrokes
        /\ history = chain.history
        /\ future = chain.future

\* two undos and two redos have gone round, over a grid edit and a stroke
C2_Witness ==
    /\ RoundTripDone
    /\ chain.undos = 2
    /\ op.name = "redo" /\ op.case = "done"
    /\ Len(history) = 2
    /\ Len(paintStrokes) > 0
    /\ grid # createEmptyGrid(rows, cols)

\* C3: the undo stack never holds more than MAX_HISTORY snapshots; after k > MAX_HISTORY
\* consecutive edits the first MAX_HISTORY undos succeed, the j-th one installing the state
\* that held after edit k - j, and every further undo is a no-op that stays in the state
\* that held after edit k - MAX_HISTORY.
C3_UndoStackBounded ==
    /\ Len(history) <= MAX_HISTORY
    /\ (RunEdits > MAX_HISTORY /\ run.undone >= 1) =>
          IF run.undone <= MAX_HISTORY
          THEN /\ op.case = "done"
               /\ Snap(grid, paintStrokes) = run.trail[RunEdits + 1 - run.undone]
          ELSE /\ op.case = "noop"
               /\ Snap(grid, paintStrokes) = run.trail[RunEdits + 1 - MAX_HISTORY]

\* more than MAX_HISTORY edits have been undone as far as the stack goes
C3_Witness ==
    /\ RunEdits > MAX_HISTORY
    /\ run.undone = MAX_HISTORY
    /\ op.name = "undo" /\ op.case = "done"
    /\ history = <<>>
    /\ Len(future) = MAX_HISTORY
    /\ Snap(grid, paintStrokes) # run.trail[1]

(* ------------------------------------------------------------------ *)
(* The fill machine: one click on every grid the store can hold.  The  *)
(* initial states are those the store is in after deserialize of a     *)
(* document with that grid and selected color, followed by setMode.    *)
(* ------------------------------------------------------------------ *)
SizeRange == MIN_GRID_SIZE..MAX_GRID_SIZE

\* the cell values of the grids of the fill machine
FillCells == {Null, DEFAULT_COLOR}

InitFill ==
    /\ rows \in SizeRange
    /\ cols \in SizeRange
    /\ grid \in [1..rows -> [1..cols -> FillCells]]
    /\ zoom = 2
    /\ selectedColor \in Colors
    /\ panX = 0
    /\ panY = 0
    /\ mode \in GridMode
    /\ paintStrokes = <<>>
    /\ history = <<>>
    /\ future = <<>>
    /\ activeStrokeIndex = 0
    /\ storage = JPersisted(Persisted)
    /\ InitObservers
    /\ InitComponent

NextFill ==
    /\ steps = 0
    /\ steps' = steps + 1
    /\ \E row \in CellArgs, col \in CellArgs : ApplyCellAction(row, col)
    /\ track' = TrackNext
    /\ UNCHANGED probe
    /\ UNCHANGED <<componentVars, handler>>

SpecFill == InitFill /\ [][NextFill]_vars

\* the cells (0-based pairs) of g
CellsOf(g) == {<<i - 1, j - 1>> : i \in 1..Len(g), j \in 1..Len(g[1])}

FourWay == {<<0 - 1, 0>>, <<1, 0>>, <<0, 0 - 1>>, <<0, 1>>}

RightDown == {<<1, 0>>, <<0, 1>>}

\* the least set that holds S and every cell of value target one step along steps from it
RECURSIVE Closure(_, _, _, _)
Closure(g, target, stepSet, S) ==
    LET more == {q \in CellsOf(g) :
                    /\ CellAt(g, q[1], q[2]) = target
                    /\ \E p \in S, d \in stepSet : q = <<p[1] + d[1], p[2] + d[2]>>}
    IN IF more \subseteq S THEN S ELSE Closure(g, target, stepSet, S \cup more)

\* the cells reachable from (row, col) by steps of stepSet through cells of its value
Region(g, row, col, stepSet) == Closure(g, CellAt(g, row, col), stepSet, {<<row, col>>})

\* g with the cells of region set to value
Painted(g, region, value) ==
    [i \in 1..Len(g) |->
        [j \in 1..Len(g[i]) |-> IF <<i - 1, j - 1>> \in region THEN value ELSE g[i][j]]]

\* C7: in mode fill, applyCellAction on an in-bounds cell that differs from selectedColor
\* sets to selectedColor exactly the cells of the 4-connected region of cells equal to the
\* clicked cell's prior value that contains the cell, and leaves every other cell unchanged.
C7_FillPaintsConnectedRegion ==
    [][op'.name = "applyCellAction" => \A row \in CellArgs, col \in CellArgs :
          (/\ mode = "fill"
           /\ InBounds(row, col)
           /\ CellAt(grid, row, col) # selectedColor
           /\ ApplyCellAction(row, col))
          => grid' = Painted(grid, Region(grid, row, col, FourWay), selectedColor)]_vars

\* the cells where g and h differ
Differing(g, h) == {q \in CellsOf(g) : CellAt(g, q[1], q[2]) # CellAt(h, q[1], q[2])}

\* a fill has painted a region that winds around other cells and has left out a cell of
\* the clicked value that is not connected to it
C7_Witness ==
    /\ op.name = "applyCellAction" /\ op.case = "done"
    /\ mode = "fill"
    /\ Len(history) = 1
    /\ LET before == history[1].grid
           painted == Differing(before, grid)
       IN /\ Cardinality(painted) >= 4
          /\ \E p \in painted, q \in painted : p[1] # q[1] /\ p[2] # q[2]
          /\ \E p \in painted, q \in CellsOf(grid) \ painted :
                CellAt(before, q[1], q[2]) = CellAt(before, p[1], p[2])

\* C8: in mode fillForward, applyCellAction(row, col) changes exactly the cells reachable
\* from (row, col) by right/down steps through cells of the clicked cell's prior value, so
\* no cell above row or left of col changes.
C8_ForwardFillPaintsRightDownRegion ==
    [][op'.name = "applyCellAction" => \A row \in CellArgs, col \in CellArgs :
          (/\ mode = "fillForward"
           /\ InBounds(row, col)
           /\ CellAt(grid, row, col) # selectedColor
           /\ ApplyCellAction(row, col))
          => /\ grid' = Painted(grid, Region(grid, row, col, RightDown), selectedColor)
             /\ \A q \in CellsOf(grid) :
                   (q[1] < row \/ q[2] < col)
                   => CellAt(grid', q[1], q[2]) = CellAt(grid, q[1], q[2])]_vars

\* a forward fill has painted several cells and has left a cell of the clicked value that
\* touches the painted region from above or from the left
C8_Witness ==
    /\ op.name = "applyCellAction" /\ op.case = "done"
    /\ mode = "fillForward"
    /\ Len(history) = 1
    /\ LET before == history[1].grid
           painted == Differing(before, grid)
       IN /\ Cardinality(painted) >= 3
          /\ \E p \in painted, q \in CellsOf(grid) \ painted :
                /\ CellAt(before, q[1], q[2]) = CellAt(before, p[1], p[2])
                /\ \/ q = <<p[1] - 1, p[2]>>
                   \/ q = <<p[1], p[2] - 1>>

(* ------------------------------------------------------------------ *)
(* Properties of the paint gestures, checked on the history machine    *)
(* ------------------------------------------------------------------ *)
\* the last point of the active stroke
LastActivePoint ==
    LET points == paintStrokes[activeStrokeIndex].points IN points[Len(points)]

\* C12: the paint-stroke no-op cases leave the whole store and the storage unchanged and
\* add no history entry: startPaintStroke while a stroke is active, updatePaintStroke or
\* endPaintStroke while no stroke is active, and updatePaintStroke with a point equal to
\* the active stroke's last point.
C12_StrokeNoOpsChangeNothing ==
    [][/\ (op'.name = "startPaintStroke" /\ activeStrokeIndex # 0)
          => UNCHANGED <<storeVars, storage>>
       /\ (op'.name \in {"updatePaintStroke", "endPaintStroke"} /\ activeStrokeIndex = 0)
          => UNCHANGED <<storeVars, storage>>
       /\ op'.name = "updatePaintStroke" => \A point \in PointArgs :
             (/\ activeStrokeIndex \in 1..Len(paintStrokes)
              /\ LastActivePoint = point
              /\ UpdatePaintStroke(point))
             => UNCHANGED <<storeVars, storage>>]_vars

\* an update has repeated the last point of a stroke of two points and was dropped
C12_Witness ==
    /\ op.name = "updatePaintStroke" /\ op.case = "noop" /\ op.hadStroke
    /\ activeStrokeIndex \in 1..Len(paintStrokes)
    /\ Len(paintStrokes[activeStrokeIndex].points) = 2
    /\ Len(history) > 0

\* C13: a whole paint gesture (startPaintStroke, any number of updatePaintStroke,
\* endPaintStroke) adds exactly one undo snapshot, taken at start; a single undo() right
\* after it removes the entire stroke and restores the grid and the stroke list of before
\* the gesture, and a redo() right after that restores the stroke with all of its points.
C13_GestureIsOneUndoStep ==
    /\ track.phase = "ended" =>
          /\ Len(history) >= 1
          /\ history[Len(history)] = Snap(track.grid, track.paintStrokes)
          /\ SubSeq(history, 1, Len(history) - 1) =
                (IF Len(track.history) < MAX_HISTORY THEN track.history
                 ELSE SubSeq(track.history, 2, Len(track.history)))
          /\ paintStrokes = track.drawn
    /\ track.phase = "undone" =>
          /\ grid = track.grid
          /\ paintStrokes = track.paintStrokes
          /\ Len(paintStrokes) = Len(track.drawn) - 1
    /\ track.phase = "redone" =>
          /\ grid = track.grid
          /\ paintStrokes = track.drawn

\* a stroke of several points drawn over an edited grid has been undone and redone
C13_Witness ==
    /\ track.phase = "redone"
    /\ Len(track.drawn[Len(track.drawn)].points) >= 2
    /\ \E i \in 1..rows, j \in 1..cols : track.grid[i][j] # Null

(* ------------------------------------------------------------------ *)
(* The canvas machine: the pointer handlers of GridCanvas driving the  *)
(* store.  A handler reads the component state and the store as of the *)
(* last render; the effects that a render schedules run with the step  *)
(* that caused the render.                                             *)
(* ------------------------------------------------------------------ *)
\* 48 pixels, in halves
minVisible == 96

\* clampPan with the view limit alone: no strip is kept
clampPanNoStrip(x, y) ==
    LET contentWidth == cols * BASE_CELL_SIZE * zoom
        contentHeight == rows * BASE_CELL_SIZE * zoom
        viewWidth == IF viewportSize.width # 0 THEN viewportSize.width ELSE contentWidth
        viewHeight == IF viewportSize.height # 0 THEN viewportSize.height ELSE contentHeight
        boundedViewWidth == Min2(viewWidth, contentWidth)
        boundedViewHeight == Min2(viewHeight, contentHeight)
        minX == 0 - contentWidth
        maxX == boundedViewWidth
        minY == 0 - contentHeight
        maxY == boundedViewHeight
    IN [x |-> Min2(Max2(x, minX), maxX), y |-> Min2(Max2(y, minY), maxY)]

\* contentWidth and contentHeight, in halves (zoom is in halves)
clampPan(x, y) ==
    LET contentWidth == cols * BASE_CELL_SIZE * zoom
        contentHeight == rows * BASE_CELL_SIZE * zoom
        viewWidth == IF viewportSize.width # 0 THEN viewportSize.width ELSE contentWidth
        viewHeight == IF viewportSize.height # 0 THEN viewportSize.height ELSE contentHeight
        boundedViewWidth == Min2(viewWidth, contentWidth)
        boundedViewHeight == Min2(viewHeight, contentHeight)
        minX == minVisible - contentWidth
        maxX == boundedViewWidth - minVisible
        minY == minVisible - contentHeight
        maxY == boundedViewHeight - minVisible
    IN [x |-> Min2(Max2(x, minX), maxX), y |-> Min2(Max2(y, minY), maxY)]

\* a handler that returns without calling the store
NoStoreCall == NoOp("none")

Handled(name, writes) == [name |-> name, writes |-> writes]

\* event.cell: <<the cell>> that getCellFromEvent computes, or <<>> for its null
handlePointerAction(event) ==
    IF mode = "paint" \/ event.cell = <<>>
    THEN NoStoreCall
    ELSE ApplyCellAction(event.cell[1].row, event.cell[1].col)

handlePointerDown(event) ==
    /\ IF event.button # 0 \/ mode = "paint"
       THEN NoStoreCall /\ UNCHANGED componentVars
       ELSE IF mode = "pan"
       THEN /\ NoStoreCall
            /\ isPanning' = TRUE
            /\ panOrigin' = [set |-> TRUE, x |-> event.clientX, y |-> event.clientY,
                             panX |-> panX, panY |-> panY]
            /\ UNCHANGED <<isDrawing, isPainting, viewportSize>>
       ELSE /\ isDrawing' = TRUE
            /\ handlePointerAction(event)
            /\ UNCHANGED <<isPanning, isPainting, viewportSize, panOrigin>>
    /\ handler' = Handled("handlePointerDown", IF op'.wrote THEN 1 ELSE 0)

handlePointerMove(event) ==
    /\ UNCHANGED componentVars
    /\ IF mode = "paint"
       THEN NoStoreCall
       ELSE IF isPanning
       THEN IF ~panOrigin.set
            THEN NoStoreCall
            ELSE LET deltaX == event.clientX - panOrigin.x
                     deltaY == event.clientY - panOrigin.y
                     clamped == clampPan(panOrigin.panX + deltaX, panOrigin.panY + deltaY)
                 IN SetPan(clamped.x, clamped.y, FALSE)
       ELSE IF ~isDrawing
       THEN NoStoreCall
       ELSE handlePointerAction(event)
    /\ handler' = Handled("handlePointerMove", IF op'.wrote THEN 1 ELSE 0)

\* pointer up, pointer leave and pointer cancel of the grid canvas
stopDrawing ==
    LET clamped == clampPan(panX, panY)
        active == activeStrokeIndex # 0
    IN /\ isPanning' = FALSE
       /\ isDrawing' = FALSE
       /\ isPainting' = FALSE
       /\ panOrigin' = IF isPanning THEN NoOrigin ELSE panOrigin
       /\ UNCHANGED viewportSize
       /\ IF isPanning /\ isPainting
          THEN \* setPan(clamped.x, clamped.y, true), then endPaintStroke()
               /\ panX' = clamped.x
               /\ panY' = clamped.y
               /\ activeStrokeIndex' = 0
               /\ storage' = persistSnapshot(buildPersistedState(Persisted,
                                 [panX |-> clamped.x, panY |-> clamped.y]))
               /\ UNCHANGED <<rows, cols, grid, zoom, selectedColor, mode, paintStrokes,
                              history, future>>
               /\ op' = Op("endPaintStroke", IF active THEN "done" ELSE "noop", active)
               /\ run' = NoRun
               /\ chain' = NoChain
               /\ handler' = Handled("stopDrawing", IF active THEN 2 ELSE 1)
          ELSE IF isPanning
          THEN /\ SetPan(clamped.x, clamped.y, TRUE)
               /\ handler' = Handled("stopDrawing", 1)
          ELSE IF isPainting
          THEN /\ EndPaintStroke
               /\ handler' = Handled("stopDrawing", IF active THEN 1 ELSE 0)
          ELSE /\ NoStoreCall
               /\ handler' = Handled("stopDrawing", 0)

\* event.point: <<the point>> that getPaintPointFromEvent computes, or <<>> for its null
handlePaintPointerDown(event) ==
    /\ handler' = Handled("handlePaintPointerDown", 0)
    /\ IF event.button # 0 \/ mode # "paint" \/ event.point = <<>>
       THEN NoStoreCall /\ UNCHANGED componentVars
       ELSE /\ isPainting' = TRUE
            /\ StartPaintStroke(event.point[1])
            /\ UNCHANGED <<isDrawing, isPanning, viewportSize, panOrigin>>

handlePaintPointerMove(event) ==
    /\ handler' = Handled("handlePaintPointerMove", 0)
    /\ UNCHANGED componentVars
    /\ IF ~isPainting \/ mode # "paint" \/ event.point = <<>>
       THEN NoStoreCall
       ELSE UpdatePaintStroke(event.point[1])

\* stopPainting that lowers the flag of the component and leaves the store alone
stopPaintingFlagOnly ==
    /\ IF ~isPainting
       THEN NoStoreCall /\ UNCHANGED componentVars
       ELSE /\ isPainting' = FALSE
            /\ NoStoreCall
            /\ UNCHANGED <<isDrawing, isPanning, viewportSize, panOrigin>>
    /\ handler' = Handled("stopPainting", 0)

\* pointer up, pointer leave and pointer cancel of the paint canvas
stopPainting ==
    /\ IF ~isPainting
       THEN NoStoreCall /\ UNCHANGED componentVars
       ELSE /\ isPainting' = FALSE
            /\ EndPaintStroke
            /\ UNCHANGED <<isDrawing, isPanning, viewportSize, panOrigin>>
    /\ handler' = Handled("stopPainting", IF op'.wrote THEN 1 ELSE 0)

\* setMode(m) from the toolbar, and the effect of lines 321-326 that the render of the
\* new mode runs
ChangeMode(m) ==
    IF m # "paint" /\ isPainting
    THEN LET active == activeStrokeIndex # 0
         IN /\ mode' = m
            /\ isPainting' = FALSE
            /\ activeStrokeIndex' = 0
            /\ storage' = IF active
                          THEN persistSnapshot(buildPersistedState(Persisted,
                                                   [paintStrokes |-> paintStrokes]))
                          ELSE storage
            /\ UNCHANGED <<rows, cols, grid, zoom, selectedColor, panX, panY, paintStrokes,
                           history, future>>
            /\ UNCHANGED <<isDrawing, isPanning, viewportSize, panOrigin>>
            /\ op' = Op("endPaintStroke", IF active THEN "done" ELSE "noop", active)
            /\ run' = NoRun
            /\ chain' = NoChain
            /\ handler' = Handled("modeEffect", IF active THEN 1 ELSE 0)
    ELSE /\ SetMode(m)
         /\ UNCHANGED componentVars
         /\ handler' = NoHandler

\* pointer events of the grid canvas: positions in halves, the cell under the pointer
PointerEvents ==
    <<[button |-> 0, clientX |-> 0, clientY |-> 0, cell |-> <<[row |-> 0, col |-> 0]>>],
      [button |-> 0, clientX |-> 100, clientY |-> 40, cell |-> <<[row |-> 1, col |-> 1]>>],
      [button |-> 0, clientX |-> 1000, clientY |-> 0 - 1000,
       cell |-> <<[row |-> 0, col |-> MAX_GRID_SIZE]>>],
      [button |-> 2, clientX |-> 100, clientY |-> 40, cell |-> <<>>]>>

\* pointer events of the paint canvas
PaintEvents ==
    <<[button |-> 0, point |-> <<[x |-> 1, y |-> 1]>>],
      [button |-> 0, point |-> <<[x |-> 3, y |-> 2]>>],
      [button |-> 0, point |-> <<>>],
      [button |-> 2, point |-> <<[x |-> 1, y |-> 1]>>]>>

\* the modes picked in the toolbar
CanvasModes == {"draw", "pan", "paint"}

\* measured sizes of the wrapper, in halves: not yet measured, smaller than the content,
\* larger than the content
ViewportArgs == {[width |-> 0, height |-> 0], [width |-> 200, height |-> 300],
                 [width |-> 4000, height |-> 4000]}

\* the constructed store under a mounted canvas: the wrapper is measured and the effect of
\* lines 170-175 finds the pan within its limits
InitCanvas ==
    /\ InitStore
    /\ storage = NoItem
    /\ InitObservers
    /\ isDrawing = FALSE
    /\ isPanning = FALSE
    /\ isPainting = FALSE
    /\ viewportSize \in ViewportArgs
    /\ panOrigin = NoOrigin
    /\ handler = NoHandler
    /\ clampPan(panX, panY) = [x |-> panX, y |-> panY]

NextCanvas ==
    /\ steps < MaxCanvasSteps
    /\ steps' = steps + 1
    /\ \/ \E i \in 1..Len(PointerEvents) : handlePointerDown(PointerEvents[i])
       \/ \E i \in 1..Len(PointerEvents) : handlePointerMove(PointerEvents[i])
       \/ stopDrawing
       \/ \E i \in 1..Len(PaintEvents) : handlePaintPointerDown(PaintEvents[i])
       \/ \E i \in 1..Len(PaintEvents) : handlePaintPointerMove(PaintEvents[i])
       \/ stopPainting
       \/ \E m \in CanvasModes : ChangeMode(m)
       \/ \E i \in 1..Len(PanArgs), persist \in BOOLEAN :
             /\ SetPan(PanArgs[i].x, PanArgs[i].y, persist)
             /\ UNCHANGED componentVars
             /\ handler' = NoHandler
    /\ track' = TrackNext
    /\ UNCHANGED probe

SpecCanvas == InitCanvas /\ [][NextCanvas]_vars

\* the document of the persisted fields of the state a step leaves
PersistedAfter ==
    JPersisted([rows |-> rows', cols |-> cols', grid |-> grid', zoom |-> zoom',
                selectedColor |-> selectedColor', panX |-> panX', panY |-> panY',
                paintStrokes |-> paintStrokes'])

\* C20: setPan(x, y, persist) only reassigns panX and panY (grid, strokes, history and
\* future untouched) and writes to storage if and only if persist is true; a pan drag
\* writes nothing on its intermediate frames and writes the final clamped pan once at
\* its end, also when that pan equals the current pan.
C20_SetPanPersistsOnlyOnRequest ==
    [][/\ op'.name = "setPan" =>
             UNCHANGED <<rows, cols, grid, zoom, selectedColor, mode, paintStrokes,
                         history, future, activeStrokeIndex>>
       /\ (op'.name = "setPan" /\ handler'.name = "none") =>
             \A i \in 1..Len(PanArgs), persist \in BOOLEAN :
                SetPan(PanArgs[i].x, PanArgs[i].y, persist) =>
                   /\ panX' = PanArgs[i].x
                   /\ panY' = PanArgs[i].y
                   /\ storage' = (IF persist THEN PersistedAfter ELSE storage)
       /\ (handler'.name = "handlePointerMove" /\ isPanning /\ mode # "paint") =>
             /\ storage' = storage
             /\ handler'.writes = 0
       /\ (handler'.name = "stopDrawing" /\ isPanning) =>
             /\ panX' = clampPan(panX, panY).x
             /\ panY' = clampPan(panX, panY).y
             /\ storage' = PersistedAfter
             /\ handler'.writes >= 1
             /\ ~isPainting => handler'.writes = 1]_vars

\* a drag has moved the pan up to its limit and its end has written the pan it found
C20_Witness ==
    /\ handler.name = "stopDrawing" /\ handler.writes = 1
    /\ op.name = "setPan" /\ op.case = "noop" /\ op.wrote
    /\ panX # 0 /\ panY # 0
    /\ panX = clampPan(1000, 0).x
    /\ storage.t = "obj" /\ storage.v.panX = JNum(panX) /\ storage.v.panY = JNum(panY)

(* ------------------------------------------------------------------ *)
(* The codec machine: documents of every kind are imported and loaded  *)
(* from storage, between operations that change what is exported       *)
(* ------------------------------------------------------------------ *)
\* numbers that are not finite (the literals 1e999 and -1e999) for zoom, pan, a stroke
\* width and point coordinates; the second stroke has no finite point
DocNonFinite ==
    JObj([DocValid.v EXCEPT
            !.zoom = JNum(Infinity),
            !.panX = JNum(Infinity),
            !.panY = JNum(0 - Infinity),
            !.paintStrokes =
                JArr(<<JObj([color |-> JStr(OTHER_COLOR), width |-> JNum(Infinity),
                             points |-> JArr(<<JObj([x |-> JNum(Infinity), y |-> JNum(1)]),
                                               JPoint([x |-> 3, y |-> 2]),
                                               JPoint([x |-> 1, y |-> 1])>>)]),
                       JObj([color |-> JStr(OTHER_COLOR), width |-> JNum(2),
                             points |-> JArr(<<JObj([x |-> JNum(1),
                                                     y |-> JNum(0 - Infinity)])>>)])>>)])

\* rows is the literal 1e999
DocHugeRows == JObj([DocValid.v EXCEPT !.rows = JNum(Infinity)])

\* the optional fields are present with the wrong types
DocWrongTypes ==
    JObj([DocValid.v EXCEPT
            !.zoom = JStr("2"),
            !.selectedColor = JNum(7),
            !.panX = JStr("5"),
            !.panY = JNull,
            !.paintStrokes = JStr("none")])

\* a MAX_GRID_SIZE-square document whose cells are of every kind: a boolean, an array,
\* an object, a positive fraction, the empty string, an infinite number, a null row,
\* and a cell and a row past the size
DocOddCells ==
    JObj([JMissing EXCEPT
            !.rows = JNum(ToNum(MAX_GRID_SIZE)),
            !.cols = JNum(ToNum(MAX_GRID_SIZE)),
            !.grid = JArr(<<JArr(<<JTrue, JArr(<<JNum(2)>>), JObj([x |-> JNum(2)]),
                                   JStr(OTHER_COLOR)>>),
                            JArr(<<JNum(1), JStr(""), JNum(Infinity)>>),
                            JNull,
                            JArr(<<JStr(OTHER_COLOR), JStr(OTHER_COLOR), JStr(OTHER_COLOR)>>)>>),
            !.zoom = JNum(MIN_ZOOM),
            !.selectedColor = JStr(""),
            !.panX = JNum(0 - 7),
            !.paintStrokes = JArr(<<JArr(<<>>), JStr("stroke")>>)])

\* only the required fields, in range
DocBare ==
    JObj([JMissing EXCEPT
            !.rows = JNum(ToNum(MAX_GRID_SIZE)),
            !.cols = JNum(ToNum(MIN_GRID_SIZE)),
            !.grid = JArr(<<>>)])

\* the grid of DocValid under a rows field one below the minimum
DocShortSize == JObj([DocValid.v EXCEPT !.rows = JNum(ToNum(MIN_GRID_SIZE - 1))])

\* cols is a string
DocStringCols == JObj([DocValid.v EXCEPT !.cols = JStr("2")])

\* the payloads handed to deserialize: those of the store machine, the documents
\* above, and JSON values that are not objects
CodecPayloads ==
    Payloads \o <<DocNonFinite, DocHugeRows, DocWrongTypes, DocOddCells, DocStringCols, DocBare,
                  JStr("text"), JArr(<<>>), JTrue>>

\* what localStorage may hold when the editor starts
StoredValues ==
    <<NoItem, BadText, JNull, DocStringRows, DocNoGrid, DocValid, DocOutOfRange,
      DocHugeRows, DocOddCells, DocShortSize>>

InitCodec ==
    /\ InitStore
    /\ \E i \in 1..Len(StoredValues) : storage = StoredValues[i]
    /\ InitObservers
    /\ InitComponent

NextCodec ==
    /\ steps < MaxCodecSteps
    /\ steps' = steps + 1
    /\ \/ \E i \in 1..Len(CodecPayloads) : Deserialize(CodecPayloads[i])
       \/ LoadFromStorage
       \/ \E row \in HistoryCellArgs, col \in HistoryCellArgs : ApplyCellAction(row, col)
       \/ \E point \in PointArgs : StartPaintStroke(point)
       \/ Undo
       \/ \E color \in ColorArgs : SetSelectedColor(color)
       \/ \E z \in ZoomArgs : SetZoom(z)
       \/ \E i \in 1..Len(PanArgs), persist \in BOOLEAN :
             SetPan(PanArgs[i].x, PanArgs[i].y, persist)
    /\ track' = TrackNext
    /\ UNCHANGED probe
    /\ UNCHANGED <<componentVars, handler>>

SpecCodec == InitCodec /\ [][NextCodec]_vars

\* C21: in every state reached through public operations, the exported document
\* decodes to exactly the persisted fields of the store (rows, cols, grid, zoom,
\* selectedColor, panX, panY, paintStrokes), and exporting the decoded state gives
\* the identical document.
C21_SerializeRoundTrip ==
    /\ ShapeValid(serialize)
    /\ DeserializedState(serialize.v) = Persisted
    /\ JPersisted(DeserializedState(serialize.v)) = serialize

\* a payload the decoder is to reject: a text that does not parse, a JSON value that
\* is not an object, rows or cols that is not a number, a grid that is not an array
Rejected(payload) ==
    \/ payload.t = "bad"
    \/ payload.t \in {"null", "num", "str", "bool", "arr"}
    \/ /\ payload.t = "obj"
       /\ \/ payload.v.rows.t # "num"
          \/ payload.v.cols.t # "num"
          \/ payload.v.grid.t # "arr"

\* C22: deserialize of a rejected payload changes no field of the store (the persisted
\* fields, mode, history, future, the active stroke) and leaves localStorage as it was.
C22_RejectedPayloadChangesNothing ==
    [][\A i \in 1..Len(CodecPayloads) :
          Deserialize(CodecPayloads[i]) /\ Rejected(CodecPayloads[i])
              => UNCHANGED <<storeVars, storage>>]_vars

\* a rejected payload was handed to a store with an undo entry, an active stroke and a
\* stored document
C22_Witness ==
    /\ op.name = "deserialize"
    /\ op.case # "done"
    /\ op.hadStroke
    /\ activeStrokeIndex # 0
    /\ Len(history) > 0
    /\ storage.t = "obj"

\* C23: every rejected payload is answered by a warning, the text that does not parse
\* as well as the parsable value of the wrong shape.
C23_EveryRejectionWarns ==
    [][\A i \in 1..Len(CodecPayloads) :
          Deserialize(CodecPayloads[i]) /\ Rejected(CodecPayloads[i])
              => op'.case = "warned"]_vars

\* what the document holds at row i, column j (counted from 1): undefined when the
\* row is missing, is not an array, or is too short
SourceCell(rawGrid, i, j) ==
    IF i > Len(rawGrid.v) THEN JUndef
    ELSE IF rawGrid.v[i].t # "arr" THEN JUndef
    ELSE IF j > Len(rawGrid.v[i].v) THEN JUndef
    ELSE rawGrid.v[i].v[j]

\* the cell a document value stands for: a string is itself, a positive number is the
\* default color, everything else (0, a negative number, null, a missing cell, a
\* boolean, an array, an object) is empty
ExpectedCell(value) ==
    IF value.t = "str" THEN value.v
    ELSE IF value.t = "num" /\ value.v > 0 THEN DEFAULT_COLOR
    ELSE Null

\* C24: a shape-valid decode installs a grid of exactly the clamped rows and cols, each
\* cell normalized from the document's cell at the same place (a string kept, 0 empty,
\* a positive number the default color, anything else or a cell of a short, missing or
\* non-array row empty); rows and cells of the document past that size are discarded.
C24_GridNormalizedCellByCell ==
    [][\A k \in 1..Len(CodecPayloads) :
          Deserialize(CodecPayloads[k]) /\ ~Rejected(CodecPayloads[k])
              => LET parsed == CodecPayloads[k].v
                 IN /\ rows' = ExpectedSize(parsed.rows.v)
                    /\ cols' = ExpectedSize(parsed.cols.v)
                    /\ Len(grid') = rows'
                    /\ \A i \in 1..rows' :
                          /\ Len(grid'[i]) = cols'
                          /\ \A j \in 1..cols' :
                                grid'[i][j] = ExpectedCell(SourceCell(parsed.grid, i, j))]_vars

\* the document of odd cells was decoded: a positive fraction and an infinite number
\* became the default color, the empty string was kept, the boolean and the cells of
\* the null row became empty
C24_Witness ==
    /\ op.name = "deserialize"
    /\ op.case = "done"
    /\ rows = MAX_GRID_SIZE
    /\ cols = MAX_GRID_SIZE
    /\ grid[1][1] = Null
    /\ grid[2][1] = DEFAULT_COLOR
    /\ grid[2][2] = ""
    /\ grid[2][3] = DEFAULT_COLOR
    /\ grid[3][3] = Null

\* a point of a document with finite numeric x and y
ValidPoint(point) ==
    /\ point.t = "obj"
    /\ point.v.x.t = "num" /\ point.v.x.v > 0 - Infinity /\ point.v.x.v < Infinity
    /\ point.v.y.t = "num" /\ point.v.y.v > 0 - Infinity /\ point.v.y.v < Infinity

\* an entry of paintStrokes that is kept: an object with a points array that holds at
\* least one valid point
KeptEntry(entry) ==
    /\ entry.t = "obj"
    /\ entry.v.points.t = "arr"
    /\ \E k \in 1..Len(entry.v.points.v) : ValidPoint(entry.v.points.v[k])

\* the stroke a kept entry stands for
ExpectedStroke(entry) ==
    LET valid == SelectSeq(entry.v.points.v, ValidPoint)
    IN [color |-> IF entry.v.color.t = "str" THEN entry.v.color.v ELSE DEFAULT_COLOR,
        width |-> IF /\ entry.v.width.t = "num"
                     /\ entry.v.width.v > 0
                     /\ entry.v.width.v < Infinity
                  THEN entry.v.width.v ELSE DEFAULT_STROKE_WIDTH,
        points |-> [k \in 1..Len(valid) |-> [x |-> valid[k].v.x.v, y |-> valid[k].v.y.v]]]

\* C25: a shape-valid decode of a paintStrokes array keeps, in order, exactly the entries
\* that are objects with a points array holding a point with finite numeric x and y; a
\* kept stroke holds the valid points in their order, its color unless that is not a
\* string (then the default), its width unless that is not a finite number > 0 (then
\* the default); every decoded stroke has at least one point.
C25_StrokesDecodedPerEntry ==
    [][\A i \in 1..Len(CodecPayloads) :
          (/\ Deserialize(CodecPayloads[i])
           /\ ~Rejected(CodecPayloads[i])
           /\ CodecPayloads[i].v.paintStrokes.t = "arr")
              => LET kept == SelectSeq(CodecPayloads[i].v.paintStrokes.v, KeptEntry)
                 IN /\ paintStrokes' = [k \in 1..Len(kept) |-> ExpectedStroke(kept[k])]
                    /\ \A k \in 1..Len(paintStrokes') :
                          Len(paintStrokes'[k].points) >= 1]_vars

\* the document with numbers that are not finite was decoded: of its two strokes the
\* one without a finite point is gone, the other lost its infinite point, kept the two
\* valid ones in order and got the default width
C25_Witness ==
    /\ op.name = "deserialize"
    /\ op.case = "done"
    /\ Len(paintStrokes) = 1
    /\ paintStrokes[1].color = OTHER_COLOR
    /\ paintStrokes[1].width = DEFAULT_STROKE_WIDTH
    /\ paintStrokes[1].points = <<[x |-> 3, y |-> 2], [x |-> 1, y |-> 1]>>

\* C26: a shape-valid decode sets zoom, selectedColor, panX and panY to 1, the default
\* color, 0 and 0 where the document's field is missing or of the wrong type, and
\* takes the document's value where it is a number (for zoom: a number within the zoom
\* limits; a zoom outside them is brought to the nearer limit) or a string (for
\* selectedColor); a missing paintStrokes field gives no strokes.
C26_MissingFieldsGetDefaults ==
    [][\A i \in 1..Len(CodecPayloads) :
          Deserialize(CodecPayloads[i]) /\ ~Rejected(CodecPayloads[i])
              => LET parsed == CodecPayloads[i].v
                 IN /\ parsed.zoom.t # "num" => zoom' = ToNum(1)
                    /\ parsed.zoom.t = "num" =>
                          zoom' = (IF parsed.zoom.v < MIN_ZOOM THEN MIN_ZOOM
                                   ELSE IF parsed.zoom.v > MAX_ZOOM THEN MAX_ZOOM
                                   ELSE parsed.zoom.v)
                    /\ parsed.selectedColor.t # "str" => selectedColor' = DEFAULT_COLOR
                    /\ parsed.selectedColor.t = "str" =>
                          selectedColor' = parsed.selectedColor.v
                    /\ parsed.panX.t # "num" => panX' = 0
                    /\ parsed.panX.t = "num" => panX' = parsed.panX.v
                    /\ parsed.panY.t # "num" => panY' = 0
                    /\ parsed.panY.t = "num" => panY' = parsed.panY.v
                    /\ parsed.paintStrokes.t = "undef" => paintStrokes' = <<>>]_vars

\* a document whose optional fields are missing or of the wrong type was decoded into
\* a store that held a stroke
C26_Witness ==
    /\ op.name = "deserialize"
    /\ op.case = "done"
    /\ op.hadStroke
    /\ zoom = ToNum(1)
    /\ selectedColor = DEFAULT_COLOR
    /\ panX = 0
    /\ panY = 0
    /\ paintStrokes = <<>>

\* C27: loadFromStorage leaves the whole store unchanged when localStorage holds no
\* value, a text that does not parse or a value of the wrong shape; with a shape-valid
\* value it installs the stored state: rows and cols clamped, the grid normalized to
\* the clamped size, zoom clamped, color, pan and strokes as stored, the stacks empty
\* and no active stroke.
C27_LoadInstallsOrLeavesUnchanged ==
    [][LoadFromStorage =>
          IF storage.t = "none" \/ Rejected(storage)
          THEN UNCHANGED storeVars
          ELSE LET parsed == storage.v
               IN /\ rows' = ExpectedSize(parsed.rows.v)
                  /\ cols' = ExpectedSize(parsed.cols.v)
                  /\ grid' = [i \in 1..rows' |-> [j \in 1..cols' |->
                                 ExpectedCell(SourceCell(parsed.grid, i, j))]]
                  /\ zoom' = (IF parsed.zoom.t # "num" THEN ToNum(1)
                              ELSE IF parsed.zoom.v < MIN_ZOOM THEN MIN_ZOOM
                              ELSE IF parsed.zoom.v > MAX_ZOOM THEN MAX_ZOOM
                              ELSE parsed.zoom.v)
                  /\ selectedColor' = (IF parsed.selectedColor.t = "str"
                                       THEN parsed.selectedColor.v ELSE DEFAULT_COLOR)
                  /\ panX' = (IF parsed.panX.t = "num" THEN parsed.panX.v ELSE 0)
                  /\ panY' = (IF parsed.panY.t = "num" THEN parsed.panY.v ELSE 0)
                  /\ paintStrokes' = normalizePaintStrokes(parsed.paintStrokes)
                  /\ history' = <<>>
                  /\ future' = <<>>
                  /\ activeStrokeIndex' = 0
                  /\ UNCHANGED mode]_vars

(* ------------------------------------------------------------------ *)
(* The clamp machine: clampPan applied to a requested pan, for every   *)
(* content size and viewport size                                      *)
(* ------------------------------------------------------------------ *)
\* the effect with a clamp of the horizontal pan alone
clampPanEffectXOnly ==
    LET clamped == clampPan(panX, panY)
    IN /\ IF clamped.x # panX \/ clamped.y # panY
          THEN SetPan(clamped.x, panY, FALSE)
          ELSE NoStoreCall
       /\ UNCHANGED componentVars
       /\ handler' = Handled("clampPanEffect", 0)

\* the effect of lines 170-175: the pan of the store is replaced by its clamped value
clampPanEffect ==
    LET clamped == clampPan(panX, panY)
    IN /\ IF clamped.x # panX \/ clamped.y # panY
          THEN SetPan(clamped.x, clamped.y, FALSE)
          ELSE NoStoreCall
       /\ UNCHANGED componentVars
       /\ handler' = Handled("clampPanEffect", 0)

\* updateViewport (lines 123-128): the wrapper is measured anew
updateViewport(size) ==
    /\ viewportSize' = size
    /\ UNCHANGED <<isDrawing, isPanning, isPainting, panOrigin>>
    /\ NoStoreCall
    /\ handler' = Handled("updateViewport", 0)

\* widths and heights of the wrapper, in halves: not yet measured, 30 pixels (less than
\* the strip of 48), 100 pixels, 2000 pixels (more than the largest content)
ViewportLengths == {0, 60, 200, 4000}

ClampViewports == [width : ViewportLengths, height : ViewportLengths]

\* requested pan coordinates, in halves: far off-screen on either side, the origin, and
\* 75 pixels
RequestedPans == {0 - 6000, 0, 150, 6000}

\* the zoom levels the content is sized with
ClampZooms == {MIN_ZOOM, 2, MAX_ZOOM}

\* a store of any size and zoom whose pan was just requested, under a canvas of any size
InitClamp ==
    /\ rows \in SizeRange
    /\ cols \in SizeRange
    /\ grid = createEmptyGrid(rows, cols)
    /\ zoom \in ClampZooms
    /\ selectedColor = DEFAULT_COLOR
    /\ panX \in RequestedPans
    /\ panY \in RequestedPans
    /\ mode = "pan"
    /\ paintStrokes = <<>>
    /\ history = <<>>
    /\ future = <<>>
    /\ activeStrokeIndex = 0
    /\ storage = NoItem
    /\ InitObservers
    /\ isDrawing = FALSE
    /\ isPanning = FALSE
    /\ isPainting = FALSE
    /\ viewportSize \in ClampViewports
    /\ panOrigin = NoOrigin
    /\ handler = NoHandler

NextClamp ==
    /\ steps < MaxClampSteps
    /\ steps' = steps + 1
    /\ \/ clampPanEffect
       \/ \E size \in ClampViewports : updateViewport(size)
       \/ \E x \in RequestedPans, y \in RequestedPans :
             /\ SetPan(x, y, FALSE)
             /\ UNCHANGED componentVars
             /\ handler' = NoHandler
    /\ track' = TrackNext
    /\ UNCHANGED probe

SpecClamp == InitClamp /\ [][NextClamp]_vars

\* the length of the content that lies inside the viewport on one axis, the content
\* starting at pan and the viewport reaching from 0 to view
VisibleLength(pan, content, view) == Min2(pan + content, view) - Max2(pan, 0)

\* after clampPanEffect at least minVisible of the content lies inside the viewport, on
\* both axes
StripVisibleOnBothAxes ==
    /\ VisibleLength(panX', cols' * BASE_CELL_SIZE * zoom', viewportSize'.width) >= minVisible
    /\ VisibleLength(panY', rows' * BASE_CELL_SIZE * zoom', viewportSize'.height) >= minVisible

\* C29 as stated: whatever pan is requested, the clamped pan keeps at least 48 pixels of
\* the content inside the viewport on both axes, for every content size and every
\* viewport size.
C29_AsStated ==
    [][clampPanEffect => StripVisibleOnBothAxes]_vars

\* C29: whatever pan is requested, the clamped pan keeps at least 48 pixels of the
\* content inside the viewport on every axis on which the viewport measures at least
\* 48 pixels; on an axis on which the measured viewport is narrower, the content covers
\* the viewport from edge to edge.
C29_ClampKeepsStripVisible ==
    [][clampPanEffect =>
          LET contentWidth == cols' * BASE_CELL_SIZE * zoom'
              contentHeight == rows' * BASE_CELL_SIZE * zoom'
              width == viewportSize'.width
              height == viewportSize'.height
          IN /\ width >= minVisible =>
                   VisibleLength(panX', contentWidth, width) >= minVisible
             /\ height >= minVisible =>
                   VisibleLength(panY', contentHeight, height) >= minVisible
             /\ (width > 0 /\ width < minVisible) =>
                   VisibleLength(panX', contentWidth, width) = width
             /\ (height > 0 /\ height < minVisible) =>
                   VisibleLength(panY', contentHeight, height) = height]_vars

\* a pan far off-screen on both axes was requested over a measured viewport and has
\* been clamped: exactly the strip is left inside on both axes
C29_Witness ==
    /\ handler.name = "clampPanEffect"
    /\ op.name = "setPan"
    /\ op.case = "done"
    /\ viewportSize.width >= minVisible
    /\ viewportSize.height >= minVisible
    /\ VisibleLength(panX, cols * BASE_CELL_SIZE * zoom, viewportSize.width) = minVisible
    /\ VisibleLength(panY, rows * BASE_CELL_SIZE * zoom, viewportSize.height) = minVisible

\* C30: on an axis on which the content is smaller than the viewport, clampPan returns
\* the requested coordinate unchanged.
C30_NoClampingWhenContentSmaller ==
    [][clampPanEffect =>
          /\ cols * BASE_CELL_SIZE * zoom < viewportSize.width => panX' = panX
          /\ rows * BASE_CELL_SIZE * zoom < viewportSize.height => panY' = panY]_vars

(* ------------------------------------------------------------------ *)
(* The storage machine: a call is made on a state with a working       *)
(* localStorage, and the same call is made on the same state with a    *)
(* localStorage that has no room left                                  *)
(* ------------------------------------------------------------------ *)
\* the calls: every operation that persists, and those that prepare a state for them
QuotaCalls ==
    <<[name |-> "applyCellAction", row |-> 0, col |-> 0],
      [name |-> "applyCellAction", row |-> 1, col |-> 1],
      [name |-> "endPaintStroke"],
      [name |-> "undo"],
      [name |-> "redo"],
      [name |-> "clear"],
      [name |-> "setZoom", zoom |-> 3],
      [name |-> "setZoom", zoom |-> MAX_ZOOM + 2],
      [name |-> "setSelectedColor", color |-> OTHER_COLOR],
      [name |-> "setGridSize", rows |-> ToNum(MAX_GRID_SIZE), cols |-> ToNum(MIN_GRID_SIZE)],
      [name |-> "setPan", x |-> 5, y |-> 0 - 3, persist |-> TRUE],
      [name |-> "deserialize", payload |-> DocValid],
      [name |-> "deserialize", payload |-> DocOutOfRange],
      [name |-> "startPaintStroke", point |-> [x |-> 1, y |-> 1]],
      [name |-> "setMode", mode |-> "erase"],
      [name |-> "setMode", mode |-> "fill"]>>

Perform(call) ==
    CASE call.name = "applyCellAction" -> ApplyCellAction(call.row, call.col)
      [] call.name = "endPaintStroke" -> EndPaintStroke
      [] call.name = "undo" -> Undo
      [] call.name = "redo" -> Redo
      [] call.name = "clear" -> Clear
      [] call.name = "setZoom" -> SetZoom(call.zoom)
      [] call.name = "setSelectedColor" -> SetSelectedColor(call.color)
      [] call.name = "setGridSize" -> SetGridSize(call.rows, call.cols)
      [] call.name = "setPan" -> SetPan(call.x, call.y, call.persist)
      [] call.name = "deserialize" -> Deserialize(call.payload)
      [] call.name = "startPaintStroke" -> StartPaintStroke(call.point)
      [] call.name = "setMode" -> SetMode(call.mode)

\* every field of the store
StoreRecord ==
    [rows |-> rows, cols |-> cols, grid |-> grid, zoom |-> zoom,
     selectedColor |-> selectedColor, panX |-> panX, panY |-> panY, mode |-> mode,
     paintStrokes |-> paintStrokes, history |-> history, future |-> future,
     activeStrokeIndex |-> activeStrokeIndex]

\* a call on a working localStorage; it may be the one that is compared
CallOnWorkingStorage ==
    /\ probe.phase = "none"
    /\ \E i \in 1..Len(QuotaCalls) :
          /\ Perform(QuotaCalls[i])
          /\ \/ probe' = probe
             \/ probe' = [phase |-> "succeeded", call |-> i, before |-> StoreRecord,
                          after |-> StoreRecord']

\* the store is put back into the state the compared call was made on, and
\* localStorage is out of room
BackToTheStateBefore ==
    /\ probe.phase = "succeeded"
    /\ rows' = probe.before.rows
    /\ cols' = probe.before.cols
    /\ grid' = probe.before.grid
    /\ zoom' = probe.before.zoom
    /\ selectedColor' = probe.before.selectedColor
    /\ panX' = probe.before.panX
    /\ panY' = probe.before.panY
    /\ mode' = probe.before.mode
    /\ paintStrokes' = probe.before.paintStrokes
    /\ history' = probe.before.history
    /\ future' = probe.before.future
    /\ activeStrokeIndex' = probe.before.activeStrokeIndex
    /\ storage' = FullStore
    /\ op' = Op("none", "noop", FALSE)
    /\ run' = NoRun
    /\ chain' = NoChain
    /\ probe' = [probe EXCEPT !.phase = "rewound"]

\* the compared call again, every setItem throwing
CallOnFullStorage ==
    /\ probe.phase = "rewound"
    /\ Perform(QuotaCalls[probe.call])
    /\ probe' = [probe EXCEPT !.phase = "failed"]

InitQuota ==
    /\ InitStore
    /\ storage = NoItem
    /\ InitObservers
    /\ InitComponent

NextQuota ==
    /\ steps < MaxQuotaSteps
    /\ steps' = steps + 1
    /\ \/ CallOnWorkingStorage
       \/ BackToTheStateBefore
       \/ CallOnFullStorage
    /\ track' = TrackNext
    /\ UNCHANGED <<componentVars, handler>>

SpecQuota == InitQuota /\ [][NextQuota]_vars

\* C28: a call whose storage write fails leaves every field of the store as the same
\* call on the same state leaves it when the write succeeds; localStorage keeps what
\* it held.
C28_FailedWriteKeepsTheResult ==
    probe.phase = "failed" =>
        /\ StoreRecord = probe.after
        /\ storage = FullStore

\* an undo on a full localStorage: it tried to write, changed the store, and left it as
\* the undo on a working localStorage had left it
C28_Witness ==
    /\ probe.phase = "failed"
    /\ op.name = "undo"
    /\ op.wrote
    /\ StoreRecord # probe.before
    /\ StoreRecord = probe.after
    /\ storage = FullStore

(* ------------------------------------------------------------------ *)
(* The gesture machine: the pointer handlers of both canvases and the  *)
(* toolbar's mode buttons, between undo, redo and clear                *)
(* ------------------------------------------------------------------ *)
\* an operation of the store called from outside the canvas (toolbar, keyboard)
FromToolbar(Operation) ==
    /\ Operation
    /\ UNCHANGED componentVars
    /\ handler' = NoHandler

\* the handler that ended a paint gesture: pointer up, leave and cancel of either canvas
\* and the effect that follows a mode switch
GestureEnders == {"stopPainting", "stopDrawing", "modeEffect"}

NextGesture ==
    /\ steps < MaxGestureSteps
    /\ steps' = steps + 1
    /\ \/ \E i \in 1..Len(PointerEvents) : handlePointerDown(PointerEvents[i])
       \/ stopDrawing
       \/ \E i \in 1..Len(PaintEvents) : handlePaintPointerDown(PaintEvents[i])
       \/ \E i \in 1..Len(PaintEvents) : handlePaintPointerMove(PaintEvents[i])
       \/ stopPainting
       \/ \E m \in CanvasModes : ChangeMode(m)
       \/ FromToolbar(Undo)
       \/ FromToolbar(Redo)
       \/ FromToolbar(Clear)
    /\ track' = TrackNext
    /\ UNCHANGED probe

SpecGesture == InitCanvas /\ [][NextGesture]_vars

\* C31: under the canvas handlers, whenever the component holds no paint gesture
\* (isPainting is false) the store has no active stroke, whatever pointer events, mode
\* changes, undo, redo and clear came before; and each handler that ends a gesture
\* (pointer up, leave, cancel, the effect of a switch away from paint) leaves the store
\* without an active stroke and the component without a gesture.
C31_NoOrphanedStroke ==
    /\ [](~isPainting => activeStrokeIndex = 0)
    /\ [][(handler'.name \in GestureEnders /\ isPainting) =>
             (activeStrokeIndex' = 0 /\ ~isPainting')]_vars

\* a switch away from paint has ended a gesture whose stroke was being drawn
C31_Witness ==
    /\ handler.name = "modeEffect" /\ handler.writes = 1
    /\ op.name = "endPaintStroke" /\ op.hadStroke
    /\ mode # "paint"
    /\ ~isPainting /\ activeStrokeIndex = 0
    /\ Len(paintStrokes) > 0

(* ------------------------------------------------------------------ *)
(* The argument machine: every operation of the store called with      *)
(* numbers of any kind, NaN and the infinities included.  A run is     *)
(* followed up to the state in which zoom is no longer a number.       *)
(* ------------------------------------------------------------------ *)
\* row arguments: NaN, a negative row, two rows of the grid, a row beyond it
AnyRow == {NaN, 0 - 1, 0, 1, MAX_GRID_SIZE}

\* col arguments: a negative column, a column of the grid, a column beyond it
AnyCol == {0 - 1, 0, MAX_GRID_SIZE}

\* zoom arguments (in halves): NaN, the infinities, a negative zoom, a zoom within limits
AnyZoom == {NaN, 0 - Infinity, 0 - 3, 3, Infinity}

\* size arguments (in halves): the infinities, a negative size, the minimum and a half,
\* the maximum
AnySize == {0 - Infinity, 0 - 2, ToNum(MIN_GRID_SIZE) + 1, ToNum(MAX_GRID_SIZE), Infinity}

\* pan arguments (in halves)
AnyPan == {0 - Infinity, 5, Infinity}

\* stroke points: a finite point and a point at infinity
AnyPoint == {[x |-> 1, y |-> 1], [x |-> Infinity, y |-> 0 - Infinity]}

\* the modes the argument machine switches between
AnyMode == {"draw", "fill", "pan", "paint"}

NextAnyArgument ==
    /\ steps < MaxArgumentSteps
    /\ zoom # NaN
    /\ steps' = steps + 1
    /\ \/ \E m \in AnyMode : SetMode(m)
       \/ \E z \in AnyZoom : SetZoom(z)
       \/ \E d \in DeltaArgs : BumpZoom(d)
       \/ \E row \in AnyRow, col \in AnyCol : ApplyCellAction(row, col)
       \/ \E point \in AnyPoint : StartPaintStroke(point)
       \/ \E point \in AnyPoint : UpdatePaintStroke(point)
       \/ EndPaintStroke
       \/ Undo
       \/ Redo
       \/ Clear
       \/ \E r \in AnySize, c \in AnySize : SetGridSize(r, c)
       \/ \E x \in AnyPan, persist \in BOOLEAN : SetPan(x, 0, persist)
    /\ track' = TrackNext
    /\ UNCHANGED probe
    /\ UNCHANGED <<componentVars, handler>>

SpecAnyArgument == InitHistory /\ [][NextAnyArgument]_vars

\* C32: no operation throws, whatever number it is called with (negative, out of range,
\* infinite, NaN), and each leaves the grid dense and zoom, rows and cols within their
\* limits.
C32_NoOperationThrows ==
    /\ op.case # "threw"
    /\ C5_GridIsDense
    /\ C6_ZoomAndSizeInRange

(* ------------------------------------------------------------------ *)
(* The resize machine: the wrapper is measured anew between edits,     *)
(* undo, redo, zoom changes and pan gestures.  The render that follows *)
(* a change of the viewport, the content or the pan runs the effect of *)
(* lines 170-175 before the next event is handled: while that effect   *)
(* has a pan to write, it is the only step.                            *)
(* ------------------------------------------------------------------ *)
\* measured sizes of the wrapper, in halves: those of the canvas machine and one that is
\* 30 pixels wide
ResizeViewports == ViewportArgs \cup {[width |-> 60, height |-> 4000]}

\* zoom levels picked in the toolbar (in halves)
ResizeZooms == {MIN_ZOOM, MAX_ZOOM}

\* the modes picked in the toolbar
ResizeModes == {"draw", "pan"}

\* the effect of lines 170-175 has a pan to write
EffectPending == clampPan(panX, panY) # [x |-> panX, y |-> panY]

NextResize ==
    /\ steps < MaxResizeSteps
    /\ steps' = steps + 1
    /\ IF EffectPending
       THEN clampPanEffect
       ELSE \/ \E size \in ResizeViewports : updateViewport(size)
            \/ \E i \in 1..Len(PointerEvents) : handlePointerDown(PointerEvents[i])
            \/ \E i \in 1..Len(PointerEvents) : handlePointerMove(PointerEvents[i])
            \/ stopDrawing
            \/ \E m \in ResizeModes : ChangeMode(m)
            \/ \E z \in ResizeZooms : FromToolbar(SetZoom(z))
            \/ FromToolbar(Undo)
            \/ FromToolbar(Redo)
    /\ track' = TrackNext
    /\ UNCHANGED probe

SpecResize == InitCanvas /\ [][NextResize]_vars

\* the limits clampPan keeps the pan within, for the content and the viewport of the state
ClampBounds ==
    LET contentWidth == cols * BASE_CELL_SIZE * zoom
        contentHeight == rows * BASE_CELL_SIZE * zoom
        viewWidth == IF viewportSize.width = 0 THEN contentWidth ELSE viewportSize.width
        viewHeight == IF viewportSize.height = 0 THEN contentHeight ELSE viewportSize.height
    IN [minX |-> minVisible - contentWidth,
        maxX |-> Min2(viewWidth, contentWidth) - minVisible,
        minY |-> minVisible - contentHeight,
        maxY |-> Min2(viewHeight, contentHeight) - minVisible]

PanWithinClampBounds ==
    /\ ClampBounds.minX <= panX /\ panX <= ClampBounds.maxX
    /\ ClampBounds.minY <= panY /\ panY <= ClampBounds.maxY

\* the steps of a recomputation of the viewport: the measurement and the effect after it
Recomputation == {"updateViewport", "clampPanEffect"}

\* C33: a recomputation of the viewport, wherever it falls between edits, undo, redo,
\* zoom changes and pan gestures, changes no field of the store but panX and panY (grid,
\* paintStrokes, history, future and the active stroke stay as they are), and once it has
\* run, with no pan left to write, the pan of the store lies within the limits of
\* clampPan for the content and the viewport of that state.
C33_RecomputationOnlyClampsPan ==
    /\ [][handler'.name \in Recomputation =>
             UNCHANGED <<rows, cols, grid, zoom, selectedColor, mode, paintStrokes,
                         history, future, activeStrokeIndex, storage>>]_vars
    /\ []((handler.name = "clampPanEffect" \/ ~EffectPending) => PanWithinClampBounds)

\* after an edit the wrapper was measured anew, and the effect has moved the pan of the
\* store to the limit of the new viewport
C33_Witness ==
    /\ handler.name = "clampPanEffect"
    /\ op.name = "setPan" /\ op.case = "done"
    /\ panX = ClampBounds.maxX
    /\ \E i \in 1..rows, j \in 1..cols : grid[i][j] # Null

(* ------------------------------------------------------------------ *)
(* Invariants of the store under all of its operations                 *)
(* ------------------------------------------------------------------ *)
\* C34: the active-stroke marker is null or the index of the last element of
\* paintStrokes; updatePaintStroke never finds it stale, and an update that appends a
\* point appends it to that last stroke and leaves the other strokes as they are.
C34_ActiveStrokeIsTheLast ==
    /\ [](activeStrokeIndex = 0 \/ activeStrokeIndex = Len(paintStrokes))
    /\ [](op.case # "stale")
    /\ [][(op'.name = "updatePaintStroke" /\ op'.case = "done") =>
             LET n == Len(paintStrokes)
             IN /\ activeStrokeIndex = n /\ n > 0
                /\ Len(paintStrokes') = n
                /\ \A i \in 1..(n - 1) : paintStrokes'[i] = paintStrokes[i]
                /\ Len(paintStrokes'[n].points) = Len(paintStrokes[n].points) + 1
                /\ SubSeq(paintStrokes'[n].points, 1, Len(paintStrokes[n].points))
                      = paintStrokes[n].points]_vars

\* a point has been appended to the second stroke of the layer
C34_Witness ==
    /\ op.name = "updatePaintStroke" /\ op.case = "done"
    /\ Len(paintStrokes) = 2 /\ activeStrokeIndex = 2
    /\ Len(paintStrokes[1].points) = 1
    /\ Len(paintStrokes[2].points) = 2

\* C35: the undo stack and the redo stack together hold at most MAX_HISTORY snapshots.
C35_StacksBoundedTogether == Len(history) + Len(future) <= MAX_HISTORY

\* a redo has moved a snapshot back to the undo stack while another still waits in the
\* redo stack, and the two stacks hold MAX_HISTORY snapshots together
C35_Witness ==
    /\ op.name = "redo" /\ op.case = "done"
    /\ Len(history) + Len(future) = MAX_HISTORY
    /\ Len(history) > 0 /\ Len(future) > 0

\* C36: while a paint stroke is active the redo stack is empty, and updatePaintStroke
\* leaves the redo stack as it is.
C36_ActiveStrokeMeansNoRedo ==
    /\ [](activeStrokeIndex # 0 => future = <<>>)
    /\ [][op'.name = "updatePaintStroke" => future' = future]_vars

\* a stroke was begun while snapshots waited in the redo stack: it is active and the redo
\* stack is empty
C36_Witness ==
    /\ op.name = "startPaintStroke" /\ op.case = "done" /\ op.hadFuture
    /\ activeStrokeIndex # 0
    /\ future = <<>>

\* the grid of a snapshot has the rows and cols of the store
SnapshotFits(snapshot) ==
    /\ Len(snapshot.grid) = rows
    /\ \A i \in 1..Len(snapshot.grid) : Len(snapshot.grid[i]) = cols

\* C37: every snapshot of the undo stack and of the redo stack has a grid of rows x cols
\* of the store; a step that changes rows or cols leaves both stacks empty; undo and redo
\* keep rows and cols and install a grid of that shape.
C37_SnapshotsHaveTheCurrentShape ==
    /\ [](/\ \A k \in 1..Len(history) : SnapshotFits(history[k])
          /\ \A k \in 1..Len(future) : SnapshotFits(future[k]))
    /\ [][/\ (rows' # rows \/ cols' # cols) => (history' = <<>> /\ future' = <<>>)
          /\ op'.name \in {"undo", "redo"} =>
                /\ rows' = rows /\ cols' = cols
                /\ Len(grid') = rows'
                /\ \A i \in 1..Len(grid') : Len(grid'[i]) = cols']_vars

\* in a store that was given the largest number of rows (by a resize, an import or a
\* load) an edit of the new grid was undone
C37_Witness ==
    /\ op.name = "undo" /\ op.case = "done"
    /\ rows = MAX_GRID_SIZE
    /\ Len(grid) = MAX_GRID_SIZE
    /\ Len(future) > 0 /\ Len(future[1].grid) = MAX_GRID_SIZE

\* the storage holds the document of the persisted fields of the store
InSync == storage = JPersisted(Persisted)

\* the step was one of the operations that change a persisted field without writing it:
\* startPaintStroke, updatePaintStroke, setPan without persist
LagsBehind ==
    \/ op'.name \in {"startPaintStroke", "updatePaintStroke"}
    \/ op'.name = "setPan" /\ ~op'.wrote

\* C38: an operation that writes to storage leaves there the document of the persisted
\* fields (rows, cols, grid, zoom, selectedColor, panX, panY, paintStrokes) of the state
\* it leaves; loadFromStorage right after such an operation installs these fields again;
\* and a storage that agrees with the store stays in agreement through every operation
\* but startPaintStroke, updatePaintStroke and setPan without persist.
C38_StorageHoldsTheProjection ==
    [][/\ op'.wrote => storage' = PersistedAfter
       /\ (op.wrote /\ op'.name = "loadFromStorage") =>
             (op'.case = "done" /\ Persisted' = Persisted)
       /\ (InSync /\ ~LagsBehind) => InSync']_vars

\* C39: undo and redo leave rows, cols, zoom, panX, panY, selectedColor and mode as they
\* are.
C39_UndoRedoKeepSettings ==
    [][op'.name \in {"undo", "redo"} =>
          UNCHANGED <<rows, cols, zoom, panX, panY, selectedColor, mode>>]_vars

\* a cell was drawn in the default color, then the other color was picked and the view
\* moved; the edit has been undone and the color and the pan are those picked after it
C39_Witness ==
    /\ op.name = "undo" /\ op.case = "done"
    /\ Len(future) > 0
    /\ \E i \in 1..rows, j \in 1..cols :
          future[1].grid[i][j] = DEFAULT_COLOR /\ grid[i][j] = Null
    /\ selectedColor = OTHER_COLOR
    /\ panX # 0

\* an import or a load from storage that has installed a document
Replaced == op.name \in {"deserialize", "loadFromStorage"} /\ op.case = "done"

\* C40: a successful deserialize or loadFromStorage leaves the undo stack and the redo
\* stack empty and no stroke active, and an undo or a redo called right after it changes
\* nothing: the replaced content does not come back.
C40_ImportAndLoadForgetThePast ==
    /\ [](Replaced => (history = <<>> /\ future = <<>> /\ activeStrokeIndex = 0))
    /\ [][(Replaced /\ op'.name \in {"undo", "redo"}) =>
             (op'.case = "noop" /\ UNCHANGED <<storeVars, storage>>)]_vars

\* the stored document was loaded while a snapshot waited in the redo stack: both stacks
\* are empty and no stroke is active
C40_Witness ==
    /\ op.name = "loadFromStorage" /\ op.case = "done" /\ op.hadFuture
    /\ history = <<>> /\ future = <<>>
    /\ activeStrokeIndex = 0

=============================================================================
